---- MODULE Spec2Model ----
(***************************************************************************)
(* A model of simpiwallet: the wallet state (state.rs), the assembly set   *)
(* (descriptor.rs), coin selection, the transaction builder and            *)
(* send_to_address (spend.rs), and the commands of main (main.rs) with the *)
(* state file they load and save.                                          *)
(*                                                                         *)
(* Nine specifications share the module:                                   *)
(*   SpecSelect   UtxoSet::select_coins applied to bounded inputs          *)
(*   SpecBuilder  the TransactionBuilder methods, called in any order      *)
(*   SpecState    the methods of one in-memory State value                 *)
(*   SpecAssembly the methods of the AssemblySet of a State value          *)
(*   SpecKeys     key derivation, the keypair lookups and get_cmr          *)
(*   SpecWitness  the text form of a finalized witness (Display, FromStr)  *)
(*   SpecSend     send_to_address with and without the secret key          *)
(*   SpecSign     sign called repeatedly, with every draw of thread_rng    *)
(*   Spec         the program: one command per process, load ... save      *)
(* Each specification leaves the variables of the others at their initial  *)
(* values.                                                                 *)
(***************************************************************************)
EXTENDS Integers, Sequences, FiniteSets, TLC

VARIABLES
    utxo_set,      \* SpecSelect: the UtxoSet select_coins is called on
    target,        \* SpecSelect: the amount argument of select_coins
    selection,     \* SpecSelect: what select_coins returned
    builder,       \* SpecBuilder: the TransactionBuilder
    sign_call,     \* SpecBuilder: the last sign call, its arguments and result
    state,         \* SpecState, Spec: the in-memory State
    issued,        \* SpecState: the indices next_index has returned, in order
    last_call,     \* SpecState: the last method call on State and its result
    disk,          \* Spec: the file state.json
    pc,            \* Spec: the position of the running command
    cmd,           \* Spec: the running command
    outcome,       \* Spec: how the last command ended
    disk_before    \* Spec: state.json as the running command found it

selectVars  == <<utxo_set, target, selection>>
builderVars == <<builder, sign_call>>
stateVars   == <<state, issued, last_call>>
progVars    == <<disk, pc, cmd, outcome, disk_before>>
vars == <<utxo_set, target, selection, builder, sign_call, state, issued,
          last_call, disk, pc, cmd, outcome, disk_before>>

(***************************************************************************)
(* Option and Result values                                                *)
(***************************************************************************)
None == [some |-> FALSE]
Some(v) == [some |-> TRUE, val |-> v]
Ok(v) == [ok |-> TRUE, val |-> v]
Err(e) == [ok |-> FALSE, err |-> e]

\* Let(e, F) is F(e) with e evaluated once, before F is applied.
Let(e, F(_)) == CHOOSE r \in {F(v) : v \in {e}} : TRUE

(***************************************************************************)
(* Bounds                                                                  *)
(***************************************************************************)
\* The derivation cursor is a u32 whose top bit is the hardened bit.  The
\* model keeps the width as a bound: IndexBits bits, top bit 2^(IndexBits-1).
IndexBits == 2
MaxUtxos == 3
MaxInputs == 2
MaxOutputs == 3
MaxDescIndex == 2

IndexModulus == 2 ^ IndexBits
HardenedBit == 2 ^ (IndexBits - 1)

(***************************************************************************)
(* spend.rs: UtxoSet                                                       *)
(***************************************************************************)
RECURSIVE total_amount(_)
total_amount(utxos) ==
    IF utxos = <<>> THEN 0 ELSE Head(utxos).amount + total_amount(Tail(utxos))

\* The for loop of select_coins: position i, the utxos pushed and their sum.
RECURSIVE select_loop(_, _, _, _, _)
select_loop(utxos, i, amount, selected_utxos, selected_amount) ==
    IF i > Len(utxos) \/ selected_amount >= amount
    THEN [utxos |-> selected_utxos, amount |-> selected_amount]
    ELSE select_loop(utxos, i + 1, amount, Append(selected_utxos, utxos[i]),
                     selected_amount + utxos[i].amount)

\* Mutant: the loop never breaks, every utxo is selected.
select_coins_no_break(self, amount) ==
    IF total_amount(self) < amount THEN None
    ELSE Some([utxos |-> self, amount |-> total_amount(self)])

\* Mutant: the final comparison is <= instead of <.
select_coins_strict(self, amount) ==
    LET r == select_loop(self, 1, amount, <<>>, 0)
    IN  IF r.amount <= amount THEN None ELSE Some(r)

select_coins(self, amount) ==
    LET r == select_loop(self, 1, amount, <<>>, 0)
    IN  IF r.amount < amount THEN None ELSE Some(r)

(***************************************************************************)
(* key.rs: keys.  A key is [kind, seed, origin, derivation_path, wildcard]: *)
(* the extended key of `seed` derived along `origin`, with the path still  *)
(* to derive and the wildcard mode.  A child number is [hardened, index].  *)
(***************************************************************************)
Seeds == {"seedA", "seedB"}
Normal(i) == [hardened |-> FALSE, index |-> i]
Hardened(i) == [hardened |-> TRUE, index |-> i]

\* DerivationPath::from_str("m/84'/0'/0'")
FixedPath == <<Hardened(84), Hardened(0), Hardened(0)>>

UNSPENDABLE_PUBLIC_KEY ==
    [kind |-> "SinglePub", seed |-> "unspendable", origin |-> <<>>,
     derivation_path |-> <<>>, wildcard |-> "None"]

from_seed(seed) ==
    [kind |-> "XPrv", seed |-> seed, origin |-> <<>>,
     derivation_path |-> FixedPath, wildcard |-> "Unhardened"]

\* DescriptorSecretKey::to_public: the hardened steps of the path are derived
\* into the extended public key, the wildcard is kept.
to_public(xpriv) ==
    [kind |-> IF xpriv.kind = "XPrv" THEN "XPub" ELSE "SinglePub",
     seed |-> xpriv.seed,
     origin |-> xpriv.origin \o xpriv.derivation_path,
     derivation_path |-> <<>>, wildcard |-> xpriv.wildcard]

\* ChildNumber::from_normal_idx / from_hardened_idx: an error when the top
\* bit of the index is set.
from_normal_idx(index) ==
    IF index \div HardenedBit = 0 THEN Ok(Normal(index)) ELSE Err("InvalidChildNumber")
from_hardened_idx(index) ==
    IF index \div HardenedBit = 0 THEN Ok(Hardened(index)) ELSE Err("InvalidChildNumber")

\* Mutant: the child step of the other wildcard mode is appended.
secret_at_derivation_index_swapped(self, index) ==
    CASE self.kind = "Single" -> Ok(self)
      [] self.kind = "MultiXPrv" -> Err("MultiKey")
      [] OTHER ->
           LET child == IF self.wildcard = "Unhardened" THEN from_hardened_idx(index)
                        ELSE from_normal_idx(index)
           IN  IF self.wildcard = "None"
               THEN Ok(self)
               ELSE IF ~child.ok THEN Err("HardenedChild")
               ELSE Ok([self EXCEPT
                          !.derivation_path = Append(self.derivation_path, child.val)])

\* Mutant: the top bit of the index is dropped instead of reported.
secret_at_derivation_index_wrapping(self, index) ==
    CASE self.kind = "Single" -> Ok(self)
      [] self.kind = "MultiXPrv" -> Err("MultiKey")
      [] OTHER ->
           LET child == IF self.wildcard = "Unhardened" THEN Normal(index % HardenedBit)
                        ELSE Hardened(index % HardenedBit)
           IN  IF self.wildcard = "None"
               THEN Ok(self)
               ELSE Ok([self EXCEPT
                          !.derivation_path = Append(self.derivation_path, child)])

\* DescriptorSecretKey::at_derivation_index
secret_at_derivation_index(self, index) ==
    CASE self.kind = "Single" -> Ok(self)
      [] self.kind = "MultiXPrv" -> Err("MultiKey")
      [] OTHER ->
           LET child == IF self.wildcard = "Unhardened" THEN from_normal_idx(index)
                        ELSE from_hardened_idx(index)
           IN  IF self.wildcard = "None"
               THEN Ok(self)
               ELSE IF ~child.ok THEN Err("HardenedChild")
               ELSE Ok([self EXCEPT
                          !.derivation_path = Append(self.derivation_path, child.val)])

\* DescriptorSecretKey::to_private_key: the secret key at the end of the path.
\* neg tells whether the key is the negation of the one derived.
to_private_key(self) ==
    [secret |-> TRUE, seed |-> self.seed, path |-> self.origin \o self.derivation_path,
     neg |-> FALSE]

\* DescriptorPublicKey::at_derivation_index, as the callers use it: the
\* wildcard is replaced by the child step (the callers .expect the result).
public_at_derivation_index(key, index) ==
    CASE key.wildcard = "Unhardened" ->
           [key EXCEPT !.derivation_path = Append(key.derivation_path, Normal(index)),
                       !.wildcard = "None"]
      [] key.wildcard = "Hardened" ->
           [key EXCEPT !.derivation_path = Append(key.derivation_path, Hardened(index)),
                       !.wildcard = "None"]
      [] OTHER -> key

\* ToPublicKey::to_public_key: the public point at the end of the path.
to_public_key(key) ==
    [secret |-> FALSE, seed |-> key.seed, path |-> key.origin \o key.derivation_path,
     neg |-> FALSE]

\* SecretKey::public_key / KeyPair::from_secret_key
public_key(sk) == [sk EXCEPT !.secret = FALSE]

\* SecretKey::negate: -x, whose public key is -P.
negate(sk) == [sk EXCEPT !.neg = ~@]

\* The parity of the y-coordinate of a point.  The curve fixes it for every
\* point; here the point derived with an odd last child index has odd y, so
\* that both parities occur among the children, and -P has the other parity.
OddY(pk) ==
    (Len(pk.path) > 0 /\ pk.path[Len(pk.path)].index % 2 = 1) # pk.neg

\* ToEvenY, and XOnlyPublicKey::to_public_key: the point with the same
\* x-coordinate and even y.
to_even_y(pk) == IF OddY(pk) THEN [pk EXCEPT !.neg = ~@] ELSE pk

(***************************************************************************)
(* descriptor.rs: descriptors.  A descriptor is [ty, internal_key,         *)
(* taptree]; taptree is None or Some(policy), the single Simplicity leaf.  *)
(***************************************************************************)
Roots == {"r1", "r2"}
Cmr(r) == [kind |-> "asm", id |-> r]

PolicyKey(key) == [pol |-> "Key", key |-> key]
PolicyAssembly(cmr) == [pol |-> "Assembly", cmr |-> cmr]

simplicity_pk(key) ==
    [ty |-> "Tr", internal_key |-> UNSPENDABLE_PUBLIC_KEY,
     taptree |-> Some(PolicyKey(key))]

simplicity_asm(cmr) ==
    [ty |-> "Tr", internal_key |-> UNSPENDABLE_PUBLIC_KEY,
     taptree |-> Some(PolicyAssembly(cmr))]

\* Policy::cmr: an assembly fragment commits to its own root, a key policy
\* to the program that checks a signature of the key.
policy_cmr(policy) ==
    IF policy.pol = "Assembly" THEN policy.cmr
    ELSE [kind |-> "key", key |-> to_public_key(policy.key)]

\* Mutant: a root only for an assembly leaf.
get_cmr_assembly_only(descriptor) ==
    IF descriptor.ty = "Tr" /\ descriptor.taptree.some
          /\ descriptor.taptree.val.pol = "Assembly"
    THEN Some(policy_cmr(descriptor.taptree.val))
    ELSE None

get_cmr(descriptor) ==
    IF descriptor.ty = "Tr" /\ descriptor.taptree.some
    THEN Some(policy_cmr(descriptor.taptree.val))
    ELSE None

ControlBlock(internal_key, cmr) == [internal_key |-> internal_key, leaf |-> cmr]

get_control_block(descriptor) ==
    IF descriptor.ty = "Tr" /\ descriptor.taptree.some
    THEN Some(ControlBlock(descriptor.internal_key, policy_cmr(descriptor.taptree.val)))
    ELSE None

\* Descriptor::at_derivation_index: every key of the descriptor is derived.
descriptor_at_derivation_index(descriptor, index) ==
    [descriptor EXCEPT
       !.internal_key = public_at_derivation_index(@, index),
       !.taptree = IF @.some /\ @.val.pol = "Key"
                   THEN Some(PolicyKey(public_at_derivation_index(@.val.key, index)))
                   ELSE @]

\* translate_pk(&mut ToEvenY): every key becomes its even-y public key.
translate_pk_to_even_y(descriptor) ==
    [descriptor EXCEPT
       !.internal_key = to_even_y(to_public_key(@)),
       !.taptree = IF @.some /\ @.val.pol = "Key"
                   THEN Some(PolicyKey(to_even_y(to_public_key(@.val.key))))
                   ELSE @]

\* Descriptor::script_pubkey / address: a function of the descriptor (and
\* the address parameters of the network).
script_pubkey(descriptor) == [script_of |-> descriptor]
address(descriptor, network) == [script |-> script_pubkey(descriptor), params |-> network]

(***************************************************************************)
(* descriptor.rs: AssemblySet = [descriptors, satisfactions]               *)
(***************************************************************************)
AssemblySetDefault == [descriptors |-> <<>>, satisfactions |-> {}]

\* AssemblySet::iter: the roots of the descriptors, in order.
RECURSIVE assembly_iter_from(_, _)
assembly_iter_from(descriptors, i) ==
    IF i > Len(descriptors) THEN <<>>
    ELSE LET c == get_cmr(descriptors[i])
         IN  (IF c.some THEN <<c.val>> ELSE <<>>) \o assembly_iter_from(descriptors, i + 1)

assembly_iter(self) == assembly_iter_from(self.descriptors, 1)

contains(self, cmr) == \E i \in 1..Len(assembly_iter(self)) : assembly_iter(self)[i] = cmr

\* Mutant: insert without the membership test.
insert_always(self, cmr) ==
    [set |-> [self EXCEPT !.descriptors = Append(@, simplicity_asm(cmr))], ret |-> TRUE]

\* AssemblySet::insert: the set afterwards and the returned bool.
insert(self, cmr) ==
    IF contains(self, cmr) THEN [set |-> self, ret |-> FALSE]
    ELSE [set |-> [self EXCEPT !.descriptors = Append(@, simplicity_asm(cmr))],
          ret |-> TRUE]

\* WitnessNode::finalize: fails when the witness structure is inconsistent.
finalize(program) ==
    IF program.well_typed
    THEN Ok([cmr |-> program.cmr, witness |-> program.witness])
    ELSE Err("Simplicity")

\* The satisfactions HashMap as the set of its <<root, witness>> entries.
satisfaction_of(self, cmr) ==
    IF \E e \in self.satisfactions : e[1] = cmr
    THEN Some((CHOOSE e \in self.satisfactions : e[1] = cmr)[2])
    ELSE None

\* Mutant: the entry of a root that has one is kept (HashMap::entry(..)
\* .or_insert) and nothing is returned.
insert_satisfaction_keep_old(self, program) ==
    LET finalized == finalize(program)
    IN  IF ~finalized.ok THEN [set |-> self, ret |-> Err(finalized.err)]
        ELSE [set |-> [self EXCEPT !.satisfactions =
                         IF \E e \in @ : e[1] = program.cmr THEN @
                         ELSE @ \cup {<<program.cmr, finalized.val>>}],
              ret |-> Ok(None)]

\* Mutant: the witness is stored under the key of the other root.
insert_satisfaction_other_key(self, program) ==
    LET finalized == finalize(program)
        other == Cmr(IF program.cmr.id = "r1" THEN "r2" ELSE "r1")
    IN  IF ~finalized.ok THEN [set |-> self, ret |-> Err(finalized.err)]
        ELSE [set |-> [self EXCEPT !.satisfactions =
                         {e \in @ : e[1] # other} \cup {<<other, finalized.val>>}],
              ret |-> Ok(satisfaction_of(self, other))]

\* Mutant: the entry of the root is taken out before the witness is
\* finalized, and is lost when that fails.
insert_satisfaction_remove_first(self, program) ==
    LET finalized == finalize(program)
        removed == [self EXCEPT !.satisfactions = {e \in @ : e[1] # program.cmr}]
    IN  IF ~finalized.ok THEN [set |-> removed, ret |-> Err(finalized.err)]
        ELSE [set |-> [removed EXCEPT !.satisfactions =
                         @ \cup {<<program.cmr, finalized.val>>}],
              ret |-> Ok(satisfaction_of(self, program.cmr))]

\* AssemblySet::insert_satisfaction: the set afterwards and the result.
insert_satisfaction(self, program) ==
    LET finalized == finalize(program)
    IN  IF ~finalized.ok THEN [set |-> self, ret |-> Err(finalized.err)]
        ELSE [set |-> [self EXCEPT !.satisfactions =
                         {e \in @ : e[1] # program.cmr}
                             \cup {<<program.cmr, finalized.val>>}],
              ret |-> Ok(satisfaction_of(self, program.cmr))]

\* The registered roots, and their split by the presence of a witness:
\* spendable_roots are the roots with a witness present, locked_roots the
\* registered roots with none.
registered_roots(self) == {assembly_iter(self)[i] : i \in 1..Len(assembly_iter(self))}
spendable_roots(self) == {e[1] : e \in self.satisfactions}
locked_roots(self) == {c \in registered_roots(self) : satisfaction_of(self, c) = None}

(***************************************************************************)
(* network.rs, rpc.rs: the settable fields                                 *)
(***************************************************************************)
Networks == {"Regtest", "Testnet"}
bitcoin_id(network) == [asset_of |-> network]
genesis_hash(network) == [genesis_of |-> network]

ConnectionDefault == [url |-> "localhost:18443", user |-> "user", pass |-> Some("pass")]
ConnectionOther == [url |-> "node:7041", user |-> "alice", pass |-> None]
Connections == {ConnectionDefault, ConnectionOther}

DefaultFee == 1000
Fees == {DefaultFee, 0}

(***************************************************************************)
(* state.rs: State = [keymap, descriptor, next_index, assembly, fee, rpc,  *)
(* network]; the keymap is a set of <<public key, secret key>> entries.    *)
(***************************************************************************)
\* Mutant: the wallet starts on the other network.
State_new_regtest(xpriv) ==
    LET xpub == to_public(xpriv)
    IN  [keymap |-> {<<xpub, xpriv>>},
         descriptor |-> simplicity_pk(xpub),
         next_index |-> 0,
         assembly |-> AssemblySetDefault,
         fee |-> DefaultFee,
         rpc |-> ConnectionDefault,
         network |-> "Regtest"]

State_new(xpriv) ==
    LET xpub == to_public(xpriv)
    IN  [keymap |-> {<<xpub, xpriv>>},
         descriptor |-> simplicity_pk(xpub),
         next_index |-> 0,
         assembly |-> AssemblySetDefault,
         fee |-> DefaultFee,
         rpc |-> ConnectionDefault,
         network |-> "Testnet"]

\* Mutant: no test of the hardened bit; the u32 addition wraps.
next_index_unchecked(self) ==
    [state |-> [self EXCEPT !.next_index = (@ + 1) % IndexModulus],
     ret |-> Ok(self.next_index)]

\* Mutant: the cursor is incremented before it is read.
next_index_pre_increment(self) ==
    IF (self.next_index \div HardenedBit) % 2 = 0
    THEN [state |-> [self EXCEPT !.next_index = (@ + 1) % IndexModulus],
          ret |-> Ok((self.next_index + 1) % IndexModulus)]
    ELSE [state |-> self, ret |-> Err("InvalidChildNumber")]

\* State::next_index: the state afterwards and the result.
next_index(self) ==
    IF (self.next_index \div HardenedBit) % 2 = 0
    THEN [state |-> [self EXCEPT !.next_index = (@ + 1) % IndexModulus],
          ret |-> Ok(self.next_index)]
    ELSE [state |-> self, ret |-> Err("InvalidChildNumber")]

\* The callers of next_index return, beside the state afterwards and their
\* result, what their next_index call returned (index).
next_child_descriptor(self) ==
    LET i == next_index(self)
    IN  IF ~i.ret.ok THEN [state |-> i.state, ret |-> i.ret, index |-> i.ret]
        ELSE [state |-> i.state,
              ret |-> Ok(translate_pk_to_even_y(
                           descriptor_at_derivation_index(self.descriptor, i.ret.val))),
              index |-> i.ret]

\* State::get_keypair, the loop over the indices from `index` on for one
\* parent secret key: the child secret key if its public key is `key`, its
\* negation if the public key of the negation is.
RECURSIVE get_keypair_from(_, _, _, _)
get_keypair_from(parent_sk, index, cursor, key) ==
    IF index >= cursor THEN None
    ELSE LET child == secret_at_derivation_index(parent_sk, index)
         IN  IF ~child.ok THEN None
             ELSE LET child_sk == to_private_key(child.val)
                  IN  IF public_key(child_sk) = key THEN Some(child_sk)
                      ELSE IF public_key(negate(child_sk)) = key
                      THEN Some(negate(child_sk))
                      ELSE get_keypair_from(parent_sk, index + 1, cursor, key)

\* State::get_keypair: the keymap is searched parent by parent.
State_get_keypair(self, key) ==
    LET found == {get_keypair_from(e[2], 0, self.next_index, key) : e \in self.keymap}
    IN  IF \E k \in found : k.some THEN CHOOSE k \in found : k.some ELSE None

next_address(self) ==
    LET index == next_index(self)
    IN  IF ~index.ret.ok THEN [state |-> index.state, ret |-> index.ret, index |-> index.ret]
        ELSE [state |-> index.state,
              ret |-> Ok(address(descriptor_at_derivation_index(self.descriptor,
                                                                  index.ret.val),
                                 self.network)),
              index |-> index.ret]

State_fee(self) == self.fee
set_fee(self, fee) == [self EXCEPT !.fee = fee]
State_rpc(self) == self.rpc
set_rpc(self, rpc) == [self EXCEPT !.rpc = rpc]
State_network(self) == self.network
\* Mutant: changing the network puts the endpoint back to its default.
set_network_default_rpc(self, network) ==
    [self EXCEPT !.network = network, !.rpc = ConnectionDefault]
set_network(self, network) == [self EXCEPT !.network = network]

\* The bound of the derived children that scan and sign look at.
max_child_index(self) == self.next_index

(***************************************************************************)
(* spend.rs: Payment, inputs and outputs                                   *)
(***************************************************************************)
EmptyWitness == [script_witness |-> <<>>]
EmptyScript == [empty_script |-> TRUE]

TxOut(asset, value, script) == [asset |-> asset, value |-> value, script_pubkey |-> script]

\* Payment::to_output
to_output(payment, asset) == TxOut(asset, payment.amount, payment.address.script)

\* TxOut::new_fee
new_fee(amount, asset) == TxOut(asset, amount, EmptyScript)

\* The element that into_inputs pushes for one utxo.
into_input(utxo, parent_descriptor, asset) ==
    [index |-> utxo.index,
     input |-> [previous_output |-> utxo.outpoint, sequence |-> "MAX",
                witness |-> EmptyWitness],
     prevout |-> TxOut(asset, utxo.amount,
                       script_pubkey(descriptor_at_derivation_index(parent_descriptor,
                                                                    utxo.index)))]

into_inputs(self, parent_descriptor, asset) ==
    [i \in 1..Len(self) |-> into_input(self[i], parent_descriptor, asset)]

(***************************************************************************)
(* spend.rs: TransactionBuilder = [inputs, desc_indices, prevouts,         *)
(* outputs, network]                                                       *)
(***************************************************************************)
TransactionBuilder_new(network) ==
    [inputs |-> <<>>, desc_indices |-> <<>>, prevouts |-> <<>>, outputs |-> <<>>,
     network |-> network]

\* Mutant: the prevout of the input is not recorded.
add_input_no_prevout(self, input) ==
    [self EXCEPT !.inputs = Append(@, input.input),
                 !.desc_indices = Append(@, input.index)]

add_input(self, input) ==
    [self EXCEPT !.inputs = Append(@, input.input),
                 !.desc_indices = Append(@, input.index),
                 !.prevouts = Append(@, input.prevout)]

add_output(self, output) == [self EXCEPT !.outputs = Append(@, output)]

add_fee(self, amount) ==
    [self EXCEPT !.outputs = Append(@, new_fee(amount, bitcoin_id(self.network)))]

to_transaction(self) ==
    [version |-> 2, lock_time |-> 0, input |-> self.inputs, output |-> self.outputs]

get_taproot_info(descriptor) ==
    IF descriptor.ty = "Tr"
    THEN IF descriptor.taptree.some
         THEN LET cmr == policy_cmr(descriptor.taptree.val)
              IN  Some([cmr |-> cmr,
                        control_block |-> ControlBlock(descriptor.internal_key, cmr)])
         ELSE None
    ELSE None

\* DynamicSigner::get_keypair: the first entry of the keymap and index below
\* max_key_index whose child public key is pk.
signer_get_keypair(satisfier, pk) ==
    Let({h \in satisfier.keymap \X (0..(satisfier.max_key_index - 1)) :
            to_public_key(public_at_derivation_index(h[1][1], h[2])) = pk},
        LAMBDA hits :
          IF hits = {} THEN None
          ELSE Let(CHOOSE x \in hits : \A y \in hits : x[2] <= y[2],
                   LAMBDA h :
                     Let(secret_at_derivation_index(h[1][2], h[2]),
                         LAMBDA child_secret_key :
                           IF ~child_secret_key.ok THEN None
                           ELSE Some(to_private_key(child_secret_key.val)))))

\* The auxiliary random data of one signature, and what thread_rng yields
\* during one sign call: draw i is the i-th signature made.
AuxRands == {0, 1}
ThreadRngs == [1..MaxInputs -> AuxRands]

\* DynamicSigner::get_signature.  KeyPair::sign_schnorr is the signing
\* function of secp256k1 that takes its auxiliary random data from
\* thread_rng: the signature is a function of the key, the message and
\* aux_rand, the data drawn for it.
get_signature(sighash, keypair, aux_rand) ==
    [sig |-> [signer |-> keypair, msg |-> sighash, aux_rand |-> aux_rand],
     hash_ty |-> "All"]

lookup_tap_key_spend_sig(satisfier) ==
    Let(signer_get_keypair(satisfier,
                           to_even_y(to_public_key(satisfier.control_block.internal_key))),
        LAMBDA keypair :
          IF ~keypair.some THEN None
          ELSE Some(get_signature([spend |-> "key", tx |-> satisfier.cache,
                                   input_index |-> satisfier.input_index,
                                   prevouts |-> satisfier.prevouts,
                                   genesis_hash |-> satisfier.genesis_hash],
                                  keypair.val, satisfier.aux_rand)))

lookup_tap_leaf_script_sig(satisfier, pk) ==
    Let(signer_get_keypair(satisfier, to_public_key(pk)),
        LAMBDA keypair :
          IF ~keypair.some THEN None
          ELSE Some(get_signature([spend |-> "simplicity", tx |-> satisfier.cache,
                                   input_index |-> satisfier.input_index,
                                   prevouts |-> satisfier.prevouts,
                                   script_cmr |-> satisfier.script_cmr,
                                   control_block |-> satisfier.control_block,
                                   genesis_hash |-> satisfier.genesis_hash],
                                  keypair.val, satisfier.aux_rand)))

\* Descriptor::get_satisfaction with the DynamicSigner as satisfier: the key
\* spend if the internal key signs, else the leaf; an assembly leaf asks for
\* a program the DynamicSigner does not provide.
get_satisfaction(descriptor, satisfier) ==
    IF descriptor.ty # "Tr" THEN Err("CouldNotSatisfy")
    ELSE Let(lookup_tap_key_spend_sig(satisfier),
             LAMBDA key_sig :
               IF key_sig.some THEN Ok(<<key_sig.val>>)
               ELSE IF ~descriptor.taptree.some THEN Err("CouldNotSatisfy")
               ELSE IF descriptor.taptree.val.pol = "Assembly" THEN Err("CouldNotSatisfy")
               ELSE Let(lookup_tap_leaf_script_sig(satisfier, descriptor.taptree.val.key),
                        LAMBDA leaf_sig :
                          IF ~leaf_sig.some THEN Err("CouldNotSatisfy")
                          ELSE Ok(<<leaf_sig.val, satisfier.script_cmr,
                                    satisfier.control_block>>)))

\* The DynamicSigner that sign builds for input txin_index; aux_rand is what
\* thread_rng yields when this signer signs.
signer(self, tx, keymap, max_key_index, txin_index, info, aux_rand) ==
    [keymap |-> keymap, max_key_index |-> max_key_index,
     input_index |-> txin_index, prevouts |-> self.prevouts,
     locktime |-> tx.lock_time,
     sequence |-> tx.input[txin_index].sequence,
     script_cmr |-> info.cmr,
     control_block |-> info.control_block,
     genesis_hash |-> genesis_hash(self.network),
     cache |-> tx,
     aux_rand |-> aux_rand]

\* One pass of the first loop of sign for input txin_index: the witness of
\* the input, or None where the code returns None.
sign_input(self, tx, parent_descriptor, keymap, max_key_index, txin_index, aux_rand) ==
    Let(descriptor_at_derivation_index(parent_descriptor, self.desc_indices[txin_index]),
        LAMBDA child_descriptor :
          Let(get_taproot_info(child_descriptor),
              LAMBDA info :
                IF ~info.some THEN None
                ELSE Let(signer(self, tx, keymap, max_key_index, txin_index, info.val,
                                aux_rand),
                         LAMBDA satisfier :
                           Let(get_satisfaction(child_descriptor, satisfier),
                               LAMBDA sat :
                                 IF ~sat.ok THEN None
                                 ELSE Some([script_witness |-> sat.val])))))

\* The first loop of sign from input i on: the witnesses gathered, or None.
RECURSIVE sign_gather(_, _, _, _, _, _, _, _)
sign_gather(self, tx, parent_descriptor, keymap, max_key_index, i, witnesses, thread_rng) ==
    IF i > Len(self.desc_indices) THEN Some(witnesses)
    ELSE Let(sign_input(self, tx, parent_descriptor, keymap, max_key_index, i,
                        thread_rng[i]),
             LAMBDA w :
               IF ~w.some THEN None
               ELSE Let(Append(witnesses, w.val),
                        LAMBDA pushed :
                          sign_gather(self, tx, parent_descriptor, keymap,
                                      max_key_index, i + 1, pushed, thread_rng)))

\* The second loop of sign: witness i goes to input i.
sign_attach(tx, witnesses) ==
    [tx EXCEPT !.input = [i \in 1..Len(tx.input) |->
                            IF i <= Len(witnesses)
                            THEN [tx.input[i] EXCEPT !.witness = witnesses[i]]
                            ELSE tx.input[i]]]

\* Mutant: an input whose material is missing is skipped and left unsigned.
sign_partial(self, parent_descriptor, keymap, max_key_index, thread_rng) ==
    Let(to_transaction(self),
        LAMBDA tx :
          Some([tx EXCEPT !.input = [i \in 1..Len(tx.input) |->
                  Let(sign_input(self, tx, parent_descriptor, keymap, max_key_index, i,
                                 thread_rng[i]),
                      LAMBDA w : IF w.some THEN [tx.input[i] EXCEPT !.witness = w.val]
                                 ELSE tx.input[i])]]))

\* Mutant: sign refuses a builder that has no fee output yet.
sign_requires_fee(self, parent_descriptor, keymap, max_key_index, thread_rng) ==
    Let(to_transaction(self),
        LAMBDA tx :
          Let(sign_gather(self, tx, parent_descriptor, keymap, max_key_index, 1, <<>>,
                          thread_rng),
              LAMBDA witnesses :
                IF \A i \in 1..Len(self.outputs) : self.outputs[i].script_pubkey # EmptyScript
                THEN None
                ELSE IF ~witnesses.some THEN None
                ELSE Some(sign_attach(tx, witnesses.val))))

\* Mutant: one loop, in which the witness of an input is written into the
\* transaction before the next input is signed.
RECURSIVE sign_attach_early_from(_, _, _, _, _, _, _)
sign_attach_early_from(self, tx, parent_descriptor, keymap, max_key_index, i, thread_rng) ==
    IF i > Len(self.desc_indices) THEN Some(tx)
    ELSE Let(sign_input(self, tx, parent_descriptor, keymap, max_key_index, i,
                        thread_rng[i]),
             LAMBDA w :
               IF ~w.some THEN None
               ELSE sign_attach_early_from(self, [tx EXCEPT !.input[i].witness = w.val],
                                           parent_descriptor, keymap, max_key_index,
                                           i + 1, thread_rng))

sign_attach_early(self, parent_descriptor, keymap, max_key_index, thread_rng) ==
    sign_attach_early_from(self, to_transaction(self), parent_descriptor, keymap,
                           max_key_index, 1, thread_rng)

\* TransactionBuilder::sign; thread_rng is what the thread's random number
\* generator yields during the call.
sign(self, parent_descriptor, keymap, max_key_index, thread_rng) ==
    Let(to_transaction(self),
        LAMBDA tx :
          Let(sign_gather(self, tx, parent_descriptor, keymap, max_key_index, 1, <<>>,
                          thread_rng),
              LAMBDA witnesses :
                IF ~witnesses.some THEN None
                ELSE Some(sign_attach(tx, witnesses.val))))

(***************************************************************************)
(* spend.rs: send_to_address.  rpc is what the node answers: rpc.scan is   *)
(* the result of scan (a utxo list or an error), rpc.broadcast the result  *)
(* of sendrawtransaction.  The value is the state afterwards, the result,  *)
(* what the next_index call returned, the rpc calls made in order, and the *)
(* transaction sign returned.                                              *)
(***************************************************************************)
\* The txid the node answers for a transaction it accepts: the id of an
\* Elements transaction does not cover the witnesses.
txid(tx) ==
    [txid_of |-> [tx EXCEPT !.input = [i \in 1..Len(tx.input) |->
                                        [tx.input[i] EXCEPT !.witness = EmptyWitness]]]]

RECURSIVE add_inputs(_, _, _)
add_inputs(b, inputs, i) ==
    IF i > Len(inputs) THEN b ELSE add_inputs(add_input(b, inputs[i]), inputs, i + 1)

\* Mutant: the fee output is left out of the transaction.
send_builder_no_fee(st, selection_utxos, send_to, change) ==
    Let(into_inputs(selection_utxos, st.descriptor, bitcoin_id(st.network)),
        LAMBDA inputs :
          add_output(add_output(add_inputs(TransactionBuilder_new(st.network), inputs, 1),
                                to_output(send_to, bitcoin_id(st.network))),
                     to_output(change, bitcoin_id(st.network))))

\* Lines 55-63: the builder as send_to_address fills it.
send_builder(st, selection_utxos, send_to, change) ==
    Let(into_inputs(selection_utxos, st.descriptor, bitcoin_id(st.network)),
        LAMBDA inputs :
          add_fee(add_output(add_output(add_inputs(TransactionBuilder_new(st.network),
                                                   inputs, 1),
                                        to_output(send_to, bitcoin_id(st.network))),
                             to_output(change, bitcoin_id(st.network))),
                  st.fee))

\* Mutant: the transaction over everything scanned is signed before the
\* funds are checked.
send_scanned_sign_first(st, idx, send_to, utxos, broadcast, thread_rng) ==
    LET out(ret, calls, tx) ==
            [state |-> st, ret |-> ret, index |-> idx, rpc_calls |-> calls, tx |-> tx]
        nothing == [amount |-> 0, address |-> send_to.address]
    IN  Let(sign(send_builder(st, utxos, send_to, nothing), st.descriptor, st.keymap,
                 max_child_index(st), thread_rng),
            LAMBDA early :
              IF ~early.some THEN out(Err("CouldNotSatisfy"), <<"scantxoutset">>, None)
              ELSE Let(select_coins(utxos, send_to.amount + st.fee),
                       LAMBDA coins :
                         IF ~coins.some
                         THEN out(Err("NotEnoughFunds"), <<"scantxoutset">>, None)
                         ELSE IF ~broadcast.ok
                         THEN out(Err("Rpc"), <<"scantxoutset", "sendrawtransaction">>,
                                  early)
                         ELSE out(Ok(txid(early.val)),
                                  <<"scantxoutset", "sendrawtransaction">>, early)))

\* Mutant: a broadcast that failed is tried once more.
send_scanned_retry(st, idx, send_to, utxos, broadcast, thread_rng) ==
    LET out(ret, calls, tx) ==
            [state |-> st, ret |-> ret, index |-> idx, rpc_calls |-> calls, tx |-> tx]
    IN  Let(select_coins(utxos, send_to.amount + st.fee),
            LAMBDA coins :
              IF ~coins.some THEN out(Err("NotEnoughFunds"), <<"scantxoutset">>, None)
              ELSE Let([amount |-> coins.val.amount - send_to.amount - st.fee,
                        address |-> address(descriptor_at_derivation_index(st.descriptor,
                                                                            idx.val),
                                            st.network)],
                       LAMBDA change :
                         Let(sign(send_builder(st, coins.val.utxos, send_to, change),
                                  st.descriptor, st.keymap, max_child_index(st), thread_rng),
                             LAMBDA tx :
                               IF ~tx.some
                               THEN out(Err("CouldNotSatisfy"), <<"scantxoutset">>, None)
                               ELSE IF ~broadcast.ok
                               THEN out(Err("Rpc"),
                                        <<"scantxoutset", "sendrawtransaction",
                                          "sendrawtransaction">>, tx)
                               ELSE out(Ok(txid(tx.val)),
                                        <<"scantxoutset", "sendrawtransaction">>, tx))))

\* Lines 44-69, once next_index returned idx and scan returned utxos.
send_scanned(st, idx, send_to, utxos, broadcast, thread_rng) ==
    LET out(ret, calls, tx) ==
            [state |-> st, ret |-> ret, index |-> idx, rpc_calls |-> calls, tx |-> tx]
    IN  Let(select_coins(utxos, send_to.amount + st.fee),
            LAMBDA coins :
              IF ~coins.some THEN out(Err("NotEnoughFunds"), <<"scantxoutset">>, None)
              ELSE Let([amount |-> coins.val.amount - send_to.amount - st.fee,
                        address |-> address(descriptor_at_derivation_index(st.descriptor,
                                                                            idx.val),
                                            st.network)],
                       LAMBDA change :
                         Let(send_builder(st, coins.val.utxos, send_to, change),
                             LAMBDA b :
                               Let(sign(b, st.descriptor, st.keymap, max_child_index(st),
                                        thread_rng),
                                   LAMBDA tx :
                                     IF ~tx.some
                                     THEN out(Err("CouldNotSatisfy"), <<"scantxoutset">>, None)
                                     ELSE IF ~broadcast.ok
                                     THEN out(Err("Rpc"),
                                              <<"scantxoutset", "sendrawtransaction">>, tx)
                                     ELSE out(Ok(txid(tx.val)),
                                              <<"scantxoutset", "sendrawtransaction">>,
                                              tx)))))

send_to_address(state0, send_to, rpc, thread_rng) ==
    Let(next_index(state0),
        LAMBDA n :
          IF ~n.ret.ok
          THEN [state |-> n.state, ret |-> Err("Bip32"), index |-> n.ret,
                rpc_calls |-> <<>>, tx |-> None]
          ELSE IF ~rpc.scan.ok
          THEN [state |-> n.state, ret |-> Err("Rpc"), index |-> n.ret,
                rpc_calls |-> <<"scantxoutset">>, tx |-> None]
          ELSE send_scanned(n.state, n.ret, send_to, rpc.scan.val, rpc.broadcast,
                            thread_rng))

(***************************************************************************)
(* Initial values of the variables of each specification                   *)
(***************************************************************************)
WalletKey == from_seed("seedA")
WalletState == State_new(WalletKey)
WalletDescriptor == WalletState.descriptor

NotCalled == [called |-> FALSE]
Absent == [kind |-> "absent"]

SelectIdle == utxo_set = <<>> /\ target = 0 /\ selection = NotCalled
BuilderIdle == builder = TransactionBuilder_new("Testnet") /\ sign_call = NotCalled
StateIdle == state = WalletState /\ issued = <<>> /\ last_call = NotCalled
ProgIdle ==
    /\ disk = Absent /\ pc = "idle" /\ cmd = NotCalled /\ outcome = None
    /\ disk_before = Absent

(***************************************************************************)
(* SpecSelect: select_coins on every list of at most MaxUtxos utxos        *)
(***************************************************************************)
SelAmounts == {20, 30, 50}
Targets == {0, 50, 60, 100, 101}

UtxoLists(amounts, indices, n) ==
    UNION {{[i \in 1..k |-> [index |-> ix[i], amount |-> am[i], outpoint |-> i]] :
               am \in [1..k -> amounts], ix \in [1..k -> indices]} : k \in 0..n}

SelectInit ==
    /\ utxo_set \in UtxoLists(SelAmounts, {0}, MaxUtxos)
    /\ target \in Targets
    /\ selection = NotCalled
    /\ BuilderIdle /\ StateIdle /\ ProgIdle

SelectCoins ==
    /\ ~selection.called
    /\ selection' = [called |-> TRUE, ret |-> select_coins(utxo_set, target)]
    /\ UNCHANGED <<utxo_set, target, builderVars, stateVars, progVars>>

SelectNext == SelectCoins

SpecSelect == SelectInit /\ [][SelectNext]_vars

\* The amounts of a utxo list and the sum of its first k amounts.
Amounts(utxos) == [i \in 1..Len(utxos) |-> utxos[i].amount]
RECURSIVE PrefixAmount(_, _)
PrefixAmount(utxos, k) == IF k = 0 THEN 0 ELSE PrefixAmount(utxos, k - 1) + utxos[k].amount

\* C1: when the whole list covers the target, select_coins returns the
\* shortest prefix of the list whose cumulative amount is >= target, in the
\* presented order, together with that prefix's exact sum.
C1_FirstFitPrefix ==
    (selection.called /\ PrefixAmount(utxo_set, Len(utxo_set)) >= target) =>
        /\ selection.ret.some
        /\ \E k \in 0..Len(utxo_set) :
              /\ PrefixAmount(utxo_set, k) >= target
              /\ \A j \in 0..(k - 1) : PrefixAmount(utxo_set, j) < target
              /\ selection.ret.val.utxos = SubSeq(utxo_set, 1, k)
              /\ selection.ret.val.amount = PrefixAmount(utxo_set, k)

\* C1 witness: [30, 50, 20] with target 60 selected [30, 50] with total 80.
C1_Witness ==
    /\ selection.called
    /\ Amounts(utxo_set) = <<30, 50, 20>> /\ target = 60
    /\ selection.ret.some
    /\ Amounts(selection.ret.val.utxos) = <<30, 50>>
    /\ selection.ret.val.amount = 80

\* C2: select_coins returns None if and only if the sum of the amounts of
\* the full list is strictly less than the target.
C2_NoneIffInsufficient ==
    selection.called =>
        (selection.ret = None <=> PrefixAmount(utxo_set, Len(utxo_set)) < target)

\* C2 witness: target 101 over [30, 50, 20] is None.
C2_Witness ==
    /\ selection.called
    /\ Amounts(utxo_set) = <<30, 50, 20>> /\ target = 101
    /\ selection.ret = None

\* C2 second case: a target of 0 over the empty list is not None.
C2_WitnessZero ==
    selection.called /\ utxo_set = <<>> /\ target = 0 /\ selection.ret.some

(***************************************************************************)
(* SpecBuilder: the TransactionBuilder methods in any order, sign with     *)
(* every parent descriptor, keymap and max_key_index of the bounded sets   *)
(***************************************************************************)
OtherDescriptor == simplicity_pk(to_public(from_seed("seedB")))
AssemblyDescriptor == simplicity_asm(Cmr("r1"))
KeyOnlyDescriptor ==
    [ty |-> "Tr", internal_key |-> to_public(WalletKey), taptree |-> None]
NonTaprootDescriptor ==
    [ty |-> "Wpkh", internal_key |-> to_public(WalletKey), taptree |-> None]
ParentDescriptors ==
    {WalletDescriptor, OtherDescriptor, AssemblyDescriptor, KeyOnlyDescriptor,
     NonTaprootDescriptor}
Keymaps == {WalletState.keymap, {}}

BuilderPayment ==
    [amount |-> 500, address |-> address(descriptor_at_derivation_index(OtherDescriptor, 0),
                                        "Testnet")]

BuilderInit ==
    /\ builder = TransactionBuilder_new("Testnet")
    /\ sign_call = NotCalled
    /\ SelectIdle /\ StateIdle /\ ProgIdle

BuilderAddInput ==
    /\ Len(builder.inputs) < MaxInputs
    /\ \E index \in 0..MaxDescIndex :
          builder' = add_input(builder,
                               into_input([index |-> index, amount |-> 1500,
                                           outpoint |-> Len(builder.inputs) + 1],
                                          WalletDescriptor, bitcoin_id(builder.network)))
    /\ sign_call' = NotCalled
    /\ UNCHANGED <<selectVars, stateVars, progVars>>

BuilderAddOutput ==
    /\ Len(builder.outputs) < MaxOutputs
    /\ builder' = add_output(builder, to_output(BuilderPayment, bitcoin_id(builder.network)))
    /\ sign_call' = NotCalled
    /\ UNCHANGED <<selectVars, stateVars, progVars>>

BuilderAddFee ==
    /\ Len(builder.outputs) < MaxOutputs
    /\ builder' = add_fee(builder, DefaultFee)
    /\ sign_call' = NotCalled
    /\ UNCHANGED <<selectVars, stateVars, progVars>>

\* SpecBuilder and Spec, where nothing recorded depends on them, hold the
\* draws of thread_rng fixed; SpecSign, SpecState and SpecSend let them vary.
FixedRngs == {[i \in 1..MaxInputs |-> 0]}

\* sign takes &self: the builder is not changed.
BuilderSign ==
    /\ \E parent_descriptor \in ParentDescriptors, keymap \in Keymaps,
          max_key_index \in 0..MaxDescIndex, thread_rng \in FixedRngs :
          sign_call' = [called |-> TRUE, parent_descriptor |-> parent_descriptor,
                        keymap |-> keymap, max_key_index |-> max_key_index,
                        thread_rng |-> thread_rng,
                        ret |-> sign(builder, parent_descriptor, keymap, max_key_index,
                                     thread_rng)]
    /\ UNCHANGED <<builder, selectVars, stateVars, progVars>>

BuilderNext == BuilderAddInput \/ BuilderAddOutput \/ BuilderAddFee \/ BuilderSign

SpecBuilder == BuilderInit /\ [][BuilderNext]_vars

\* The material of input i resolves: the child descriptor is a taproot
\* descriptor with a key leaf, the keymap holds the parent key and the
\* input's index is below max_key_index.
MaterialResolves(call, i) ==
    /\ call.parent_descriptor.ty = "Tr"
    /\ call.parent_descriptor.taptree.some
    /\ call.parent_descriptor.taptree.val.pol = "Key"
    /\ \E e \in call.keymap : e[1] = call.parent_descriptor.taptree.val.key
    /\ builder.desc_indices[i] < call.max_key_index

Signed(txin) == txin.witness # EmptyWitness

\* C3: sign returns None whenever the material of at least one input cannot
\* be resolved, whatever the position of that input, and never returns a
\* transaction in which only some inputs carry a witness.
C3_SignAllOrNothing ==
    sign_call.called =>
        /\ (\E i \in 1..Len(builder.inputs) : ~MaterialResolves(sign_call, i))
              => sign_call.ret = None
        /\ sign_call.ret.some =>
              \A i \in 1..Len(builder.inputs) : Signed(sign_call.ret.val.input[i])

\* C3 witness: two inputs, the first resolves and the second does not (and
\* the other way round is reachable too), and sign returned None.
C3_Witness ==
    /\ sign_call.called
    /\ Len(builder.inputs) = 2
    /\ MaterialResolves(sign_call, 1)
    /\ ~MaterialResolves(sign_call, 2)
    /\ sign_call.ret = None

C3_WitnessFirst ==
    /\ sign_call.called
    /\ Len(builder.inputs) = 2
    /\ ~MaterialResolves(sign_call, 1)
    /\ MaterialResolves(sign_call, 2)
    /\ sign_call.ret = None

HasFee(b) == \E i \in 1..Len(b.outputs) : b.outputs[i].script_pubkey = EmptyScript

\* C4 as claimed: a sign() call on a builder that has not received add_fee,
\* or has no inputs or no outputs, does not produce a signed transaction.
C4_SignOnlyFromFeeAdded ==
    (sign_call.called /\ sign_call.ret.some) =>
        HasFee(builder) /\ builder.inputs # <<>> /\ builder.outputs # <<>>

\* C4 as amended: the builder keeps no stage; sign() returns a transaction
\* exactly when the material of every input present resolves, and the
\* transaction carries the inputs and outputs accumulated so far, with or
\* without a fee output.
C4_SignIgnoresStage ==
    sign_call.called =>
        /\ sign_call.ret.some <=>
              \A i \in 1..Len(builder.inputs) : MaterialResolves(sign_call, i)
        /\ sign_call.ret.some =>
              /\ sign_call.ret.val.output = builder.outputs
              /\ Len(sign_call.ret.val.input) = Len(builder.inputs)
              /\ \A i \in 1..Len(builder.inputs) :
                    sign_call.ret.val.input[i].previous_output
                        = builder.inputs[i].previous_output

\* C4 witness: sign returned a signed transaction for a builder with an
\* input and an output but no fee output.
C4_Witness ==
    /\ sign_call.called /\ sign_call.ret.some
    /\ builder.inputs # <<>> /\ builder.outputs # <<>> /\ ~HasFee(builder)
    /\ \A i \in 1..Len(builder.inputs) : Signed(sign_call.ret.val.input[i])

(***************************************************************************)
(* SpecState: the methods of one State value, from State::new on           *)
(***************************************************************************)
SendAmounts == {500, 3000}
SendPayment(amount) ==
    [amount |-> amount,
     address |-> address(descriptor_at_derivation_index(OtherDescriptor, 0), "Testnet")]

\* What the node may answer to scan: an error, or unspent outputs of the
\* wallet's children below max_child_index.
ScanResults(st) ==
    {Err("Rpc"), Ok(<<>>)} \cup
    {Ok(u) : u \in UtxoLists({1500}, {i \in {0, max_child_index(st) - 1} : i >= 0}, 1)} \cup
    {Ok(u) : u \in {v \in UtxoLists({500, 1500}, {0}, 2) :
                      Len(v) = 2 /\ v[1].amount < v[2].amount /\ max_child_index(st) > 0}}
BroadcastResults == {Ok("accepted"), Err("Rpc")}
RpcAnswers(st) == [scan : ScanResults(st), broadcast : BroadcastResults]

StateInit ==
    /\ state = State_new(WalletKey)
    /\ issued = <<>>
    /\ last_call = NotCalled
    /\ SelectIdle /\ BuilderIdle /\ ProgIdle

\* A call of a method that calls next_index: r is what the method returned.
Called(op, arg, r) ==
    /\ state' = r.state
    /\ issued' = IF r.index.ok THEN Append(issued, r.index.val) ELSE issued
    /\ last_call' = [called |-> TRUE, op |-> op, arg |-> arg, pre |-> state,
                     ret |-> r.ret, index |-> Some(r.index)]
    /\ UNCHANGED <<selectVars, builderVars, progVars>>

\* A call of a method that does not call next_index.
CalledPlain(op, arg, st, ret) ==
    /\ state' = st
    /\ last_call' = [called |-> TRUE, op |-> op, arg |-> arg, pre |-> state,
                     ret |-> ret, index |-> None]
    /\ UNCHANGED <<issued, selectVars, builderVars, progVars>>

StateNextAddress ==
    \E r \in {next_address(state)} : Called("next_address", "none", r)

StateNextChildDescriptor ==
    \E r \in {next_child_descriptor(state)} : Called("next_child_descriptor", "none", r)

StateSendToAddress ==
    \E amount \in SendAmounts :
        \E rpc \in RpcAnswers(next_index(state).state), thread_rng \in ThreadRngs :
            \E r \in {send_to_address(state, SendPayment(amount), rpc, thread_rng)} :
                Called("send_to_address", "payment", r)

StateSetFee ==
    \E fee \in Fees : CalledPlain("set_fee", fee, set_fee(state, fee), Ok("unit"))

StateSetRpc ==
    \E rpc \in Connections : CalledPlain("set_rpc", rpc, set_rpc(state, rpc), Ok("unit"))

StateSetNetwork ==
    \E network \in Networks :
        CalledPlain("set_network", network, set_network(state, network), Ok("unit"))

StateNext ==
    \/ StateNextAddress
    \/ StateNextChildDescriptor
    \/ StateSendToAddress
    \/ StateSetFee
    \/ StateSetRpc
    \/ StateSetNetwork

SpecState == StateInit /\ [][StateNext]_vars

\* The last call called next_index, and this is what next_index returned.
CalledNextIndex == last_call.called /\ last_call.index.some
NextIndexRet == last_call.index.val

\* C8: each successful next_index call returns the cursor's current value
\* and increments the cursor by exactly one, so from a new wallet the
\* successful calls (through next_address, next_child_descriptor or
\* send_to_address) return 0, 1, 2, ... with no value repeated or skipped.
C8_NextIndexSequence ==
    /\ issued = [i \in 1..Len(issued) |-> i - 1]
    /\ (CalledNextIndex /\ NextIndexRet.ok) =>
          /\ NextIndexRet.val = last_call.pre.next_index
          /\ state.next_index = last_call.pre.next_index + 1
    /\ (last_call.called /\ last_call.op = "next_address" /\ last_call.ret.ok) =>
          last_call.ret.val
              = address(descriptor_at_derivation_index(last_call.pre.descriptor,
                                                       last_call.pre.next_index),
                        last_call.pre.network)

\* C8 witness: the successful calls so far returned 0 and 1, the last of
\* them made by a send_to_address that then failed.
C8_Witness ==
    /\ issued = <<0, 1>>
    /\ last_call.called /\ last_call.op = "send_to_address"
    /\ NextIndexRet = Ok(1)
    /\ ~last_call.ret.ok
    /\ state.next_index = 2

TopBitSet(index) == (index \div HardenedBit) % 2 = 1

\* C9: the cursor never decreases and never exceeds the hardened boundary;
\* once its top bit is set every next_index call returns an error and
\* leaves the cursor (and the state) unchanged, and no index at or above
\* the boundary is handed out.
C9_CursorBounded ==
    /\ state.next_index <= HardenedBit
    /\ \A i \in 1..Len(issued) : issued[i] < HardenedBit
    /\ last_call.called => state.next_index >= last_call.pre.next_index
    /\ (CalledNextIndex /\ TopBitSet(last_call.pre.next_index)) =>
          /\ ~NextIndexRet.ok
          /\ ~last_call.ret.ok
          /\ state = last_call.pre

\* C9 witness: next_address called with the top bit of the cursor set
\* returned an error and left the cursor at the boundary.
C9_Witness ==
    /\ last_call.called /\ last_call.op = "next_address"
    /\ last_call.pre.next_index = HardenedBit
    /\ ~last_call.ret.ok
    /\ state.next_index = HardenedBit
    /\ Len(issued) = HardenedBit

(***************************************************************************)
(* SpecAssembly: the methods of the AssemblySet of one State value,        *)
(* reached through assembly_mut(), from the empty set on                   *)
(***************************************************************************)
Programs == [cmr : {Cmr(r) : r \in Roots}, witness : {"w1", "w2"}, well_typed : BOOLEAN]

AssemblyInsert ==
    \E r \in Roots :
        LET got == insert(state.assembly, Cmr(r))
        IN  CalledPlain("insert", r, [state EXCEPT !.assembly = got.set], Ok(got.ret))

AssemblyInsertSatisfaction ==
    \E program \in Programs :
        LET got == insert_satisfaction(state.assembly, program)
        IN  CalledPlain("insert_satisfaction", program,
                        [state EXCEPT !.assembly = got.set], got.ret)

AssemblyNext == AssemblyInsert \/ AssemblyInsertSatisfaction

SpecAssembly == StateInit /\ [][AssemblyNext]_vars

Registered(set, cmr) ==
    \E i \in 1..Len(set.descriptors) : set.descriptors[i] = simplicity_asm(cmr)

\* C10: inserting a root not yet registered returns true, inserting it
\* again returns false and changes nothing, contains(root) is true after
\* either call, and no root appears twice among the descriptors.
C10_InsertIdempotent ==
    /\ \A i, j \in 1..Len(state.assembly.descriptors) :
          i # j => get_cmr(state.assembly.descriptors[i])
                       # get_cmr(state.assembly.descriptors[j])
    /\ (last_call.called /\ last_call.op = "insert") =>
          LET cmr == Cmr(last_call.arg)
              was == Registered(last_call.pre.assembly, cmr)
          IN  /\ last_call.ret = Ok(~was)
              /\ contains(state.assembly, cmr)
              /\ was => state = last_call.pre
              /\ ~was => state.assembly.descriptors
                            = Append(last_call.pre.assembly.descriptors,
                                     simplicity_asm(cmr))

\* C10 witness: the second insert of a registered root returned false, the
\* root is contained, and the other root is registered beside it.
C10_Witness ==
    /\ last_call.called /\ last_call.op = "insert"
    /\ last_call.ret = Ok(FALSE)
    /\ contains(state.assembly, Cmr(last_call.arg))
    /\ Len(state.assembly.descriptors) = 2

(***************************************************************************)
(* state.rs: load and save.  The file state.json is absent, or holds a     *)
(* complete JSON document, or holds an incomplete one (empty or cut off).  *)
(***************************************************************************)
CompleteFile(json) == [kind |-> "file", complete |-> TRUE, json |-> json]
TruncatedFile == [kind |-> "file", complete |-> FALSE, written |-> "nothing"]
PartialFile == [kind |-> "file", complete |-> FALSE, written |-> "part"]

Error(kind) == [kind |-> kind]
UnknownAssembly(cmr) == [kind |-> "UnknownAssembly", cmr |-> cmr]

\* serde_json of State: one document with the seven top-level keys.
to_json(self) ==
    [keymap |-> self.keymap, descriptor |-> self.descriptor,
     next_index |-> self.next_index,
     assembly |-> [descriptors |-> self.assembly.descriptors,
                   satisfactions |-> self.assembly.satisfactions],
     fee |-> self.fee, rpc |-> self.rpc, network |-> self.network]

from_json(json) ==
    [keymap |-> json.keymap, descriptor |-> json.descriptor,
     next_index |-> json.next_index,
     assembly |-> [descriptors |-> json.assembly.descriptors,
                   satisfactions |-> json.assembly.satisfactions],
     fee |-> json.fee, rpc |-> json.rpc, network |-> json.network]

\* State::load
load(file) ==
    IF file.kind = "absent" THEN Err(Error("IO"))
    ELSE IF ~file.complete THEN Err(Error("Json"))
    ELSE Ok(from_json(file.json))

\* Mutant: the file is opened with create instead of create_new.
save_open_create(file, init, permitted) ==
    IF ~permitted THEN [file |-> file, ret |-> Err(Error("IO"))]
    ELSE [file |-> TruncatedFile, ret |-> Ok("open")]

\* State::save, lines 167-171: OpenOptions write, truncate, create_new(init).
\* The file afterwards and the result; `permitted` is whether the file
\* system lets the file be opened for writing.
save_open(file, init, permitted) ==
    IF init /\ file.kind = "file" THEN [file |-> file, ret |-> Err(Error("IO"))]
    ELSE IF ~init /\ file.kind = "absent" THEN [file |-> file, ret |-> Err(Error("IO"))]
    ELSE IF ~permitted THEN [file |-> file, ret |-> Err(Error("IO"))]
    ELSE [file |-> TruncatedFile, ret |-> Ok("open")]

\* State::save, lines 172-174: the document is written through a BufWriter
\* into the truncated file.  io is what the file system does: "written";
\* "error", a write fails while the document is serialized and
\* to_writer_pretty returns the error; "lost", the write of the buffer that
\* is flushed when the BufWriter is dropped fails, which nothing reports.
save_write(self, io) ==
    CASE io = "written" -> [file |-> CompleteFile(to_json(self)), ret |-> Ok("unit")]
      [] io = "error" -> [file |-> PartialFile, ret |-> Err(Error("Json"))]
      [] OTHER -> [file |-> TruncatedFile, ret |-> Ok("unit")]

(***************************************************************************)
(* main.rs: the commands, up to their save.  Each is the state to save and *)
(* the result so far; an error ends the command without save.              *)
(***************************************************************************)
Body(st, ret) == [state |-> st, ret |-> ret]

\* asm.sort(): the roots in their order.
RootRank(cmr) == IF cmr.id = "r1" THEN 1 ELSE 2
sorted(roots) ==
    IF Len(roots) = 2 /\ RootRank(roots[1]) > RootRank(roots[2])
    THEN <<roots[2], roots[1]>> ELSE roots

\* AssemblySet::get_address
get_address(self, cmr, params) ==
    LET hits == {i \in 1..Len(self.descriptors) : get_cmr(self.descriptors[i]) = Some(cmr)}
    IN  IF hits = {} THEN None
        ELSE Some(address(self.descriptors[CHOOSE i \in hits : \A j \in hits : i <= j],
                          params))

\* Mutant: the cursor is advanced for the address of a fragment too.
cmd_get_new_address_always_next(file, stdin) ==
    Let(load(file),
        LAMBDA loaded :
          IF ~loaded.ok THEN Body(WalletState, loaded)
          ELSE Let(sorted(assembly_iter(loaded.val.assembly)),
                   LAMBDA asm :
                     Let(next_address(loaded.val),
                         LAMBDA next :
                           IF ~next.ret.ok THEN Body(next.state, Err(Error("Bip32")))
                           ELSE IF asm # <<>> /\ stdin.choice = "y"
                           THEN IF ~stdin.index.ok
                                THEN Body(loaded.val, Err(Error("CouldNotParse")))
                                ELSE IF stdin.index.val >= Len(asm)
                                THEN Body(loaded.val, Err(Error("AssemblyOutOfBounds")))
                                ELSE Body(next.state,
                                          Ok(get_address(loaded.val.assembly,
                                                         asm[stdin.index.val + 1],
                                                         loaded.val.network).val))
                           ELSE Body(next.state, next.ret))))

\* Command::GetNewAddress; stdin is what the user answers to the prompts.
cmd_get_new_address(file, stdin) ==
    Let(load(file),
        LAMBDA loaded :
          IF ~loaded.ok THEN Body(WalletState, loaded)
          ELSE Let(sorted(assembly_iter(loaded.val.assembly)),
                   LAMBDA asm :
                     IF asm # <<>> /\ stdin.choice = "y"
                     THEN IF ~stdin.index.ok
                          THEN Body(loaded.val, Err(Error("CouldNotParse")))
                          ELSE IF stdin.index.val >= Len(asm)
                          THEN Body(loaded.val, Err(Error("AssemblyOutOfBounds")))
                          ELSE Body(loaded.val,
                                    Ok(get_address(loaded.val.assembly,
                                                   asm[stdin.index.val + 1],
                                                   loaded.val.network).val))
                     ELSE Let(next_address(loaded.val),
                              LAMBDA next :
                                IF ~next.ret.ok THEN Body(next.state, Err(Error("Bip32")))
                                ELSE Body(next.state, next.ret))))

\* spend.rs get_balance, for Command::GetBalance
get_balance(st, scan) ==
    IF ~scan.ok THEN Err(Error("Rpc")) ELSE Ok(total_amount(scan.val))

\* Command::SendToAddress
cmd_send_to_address(file, send_to, rpc, thread_rng) ==
    Let(load(file),
        LAMBDA loaded :
          IF ~loaded.ok THEN Body(WalletState, loaded)
          ELSE Let(send_to_address(loaded.val, send_to, rpc, thread_rng),
                   LAMBDA sent :
                     IF ~sent.ret.ok THEN Body(sent.state, Err(Error(sent.ret.err)))
                     ELSE Body(sent.state, sent.ret)))

\* Command::SetFee, SetRpc, SetNetwork
cmd_set_fee(file, fee) ==
    Let(load(file),
        LAMBDA loaded : IF ~loaded.ok THEN Body(WalletState, loaded)
                        ELSE Body(set_fee(loaded.val, fee), Ok("unit")))
cmd_set_rpc(file, rpc) ==
    Let(load(file),
        LAMBDA loaded : IF ~loaded.ok THEN Body(WalletState, loaded)
                        ELSE Body(set_rpc(loaded.val, rpc), Ok("unit")))
cmd_set_network(file, network) ==
    Let(load(file),
        LAMBDA loaded : IF ~loaded.ok THEN Body(WalletState, loaded)
                        ELSE Body(set_network(loaded.val, network), Ok("unit")))

\* Command::ImportProgram; program is what reading and parsing the program
\* file gives: its root, or the error.
cmd_import_program(file, program) ==
    IF ~program.ok THEN Body(WalletState, program)
    ELSE Let(load(file),
             LAMBDA loaded :
               IF ~loaded.ok THEN Body(WalletState, loaded)
               ELSE Body([loaded.val EXCEPT
                            !.assembly = insert(loaded.val.assembly, program.val).set],
                         Ok("unit")))

\* Mutant: SatisfyProgram without the contains test.
cmd_satisfy_program_unchecked(file, program, witness) ==
    Let(load(file),
        LAMBDA loaded :
          IF ~loaded.ok THEN Body(WalletState, loaded)
          ELSE IF ~program.ok THEN Body(loaded.val, program)
          ELSE IF ~witness.ok THEN Body(loaded.val, witness)
          ELSE Let(insert_satisfaction(loaded.val.assembly,
                                       [cmr |-> program.val,
                                        witness |-> witness.val.witness,
                                        well_typed |-> witness.val.well_typed]),
                   LAMBDA got :
                     IF ~got.ret.ok THEN Body(loaded.val, Err(Error("Simplicity")))
                     ELSE Body([loaded.val EXCEPT !.assembly = got.set], Ok("unit"))))

\* Command::SatisfyProgram; witness is what reading the witness file and
\* building the witness node gives: the program with its witness, or the
\* error.
cmd_satisfy_program(file, program, witness) ==
    Let(load(file),
        LAMBDA loaded :
          IF ~loaded.ok THEN Body(WalletState, loaded)
          ELSE IF ~program.ok THEN Body(loaded.val, program)
          ELSE IF ~contains(loaded.val.assembly, program.val)
          THEN Body(loaded.val, Err(UnknownAssembly(program.val)))
          ELSE IF ~witness.ok THEN Body(loaded.val, witness)
          ELSE Let(insert_satisfaction(loaded.val.assembly,
                                       [cmr |-> program.val,
                                        witness |-> witness.val.witness,
                                        well_typed |-> witness.val.well_typed]),
                   LAMBDA got :
                     IF ~got.ret.ok THEN Body(loaded.val, Err(Error("Simplicity")))
                     ELSE Body([loaded.val EXCEPT !.assembly = got.set], Ok("unit"))))

(***************************************************************************)
(* Spec: the program.  One command runs at a time, from "idle" through its *)
(* body to "save_open" and "save_write" and back; `state` is the State of  *)
(* the running process (WalletState while none runs).                      *)
(***************************************************************************)
ProgramFiles == {Err(Error("IO")), Err(Error("HumanEncoding"))} \cup {Ok(Cmr(r)) : r \in Roots}
WitnessFiles ==
    {Err(Error("IO")), Err(Error("HumanEncoding"))}
        \cup {Ok([witness |-> "w1", well_typed |-> t]) : t \in BOOLEAN}
Stdin == [choice : {"y", "n"}, index : {Err("parse"), Ok(0), Ok(1), Ok(2)}]

Init ==
    /\ disk = Absent
    /\ pc = "idle"
    /\ cmd = NotCalled
    /\ outcome = None
    /\ disk_before = Absent
    /\ state = WalletState
    /\ issued = <<>> /\ last_call = NotCalled
    /\ SelectIdle /\ BuilderIdle

\* A command starts: the body has run and returned b.
Run(name, init, arg, b) ==
    /\ pc = "idle"
    /\ disk_before' = disk
    /\ cmd' = [called |-> TRUE, name |-> name, init |-> init, arg |-> arg,
               ret |-> b.ret]
    /\ IF b.ret.ok
       THEN pc' = "save_open" /\ state' = b.state /\ outcome' = None
       ELSE pc' = "idle" /\ state' = WalletState /\ outcome' = Some(b.ret)
    /\ UNCHANGED <<disk, issued, last_call, selectVars, builderVars>>

CmdNew ==
    \E seed \in {"seedA"} :
        Run("new", TRUE, "none", Body(State_new(from_seed(seed)), Ok("unit")))

CmdGetNewAddress ==
    \E stdin \in Stdin : \E b \in {cmd_get_new_address(disk, stdin)} :
        Run("getnewaddress", FALSE, stdin, b)

\* Command::GetBalance loads, scans and prints; it does not save.
CmdGetBalance ==
    /\ pc = "idle"
    /\ \E scan \in {Err("Rpc"), Ok(<<>>)} :
          LET loaded == load(disk)
              ret == IF ~loaded.ok THEN loaded ELSE get_balance(loaded.val, scan)
          IN  /\ cmd' = [called |-> TRUE, name |-> "getbalance", init |-> FALSE,
                         arg |-> "none", ret |-> ret]
              /\ outcome' = Some(ret)
    /\ disk_before' = disk
    /\ UNCHANGED <<disk, pc, state, issued, last_call, selectVars, builderVars>>

CmdSendToAddress ==
    \E amount \in SendAmounts :
        \E rpc \in RpcAnswers(IF load(disk).ok THEN next_index(load(disk).val).state
                              ELSE WalletState) :
            \E thread_rng \in FixedRngs :
              \E b \in {cmd_send_to_address(disk, SendPayment(amount), rpc, thread_rng)} :
                  Run("sendtoaddress", FALSE, "none", b)

CmdSetFee ==
    \E fee \in Fees : \E b \in {cmd_set_fee(disk, fee)} : Run("setfee", FALSE, "none", b)

CmdSetRpc ==
    \E rpc \in Connections : \E b \in {cmd_set_rpc(disk, rpc)} : Run("setrpc", FALSE, "none", b)

CmdSetNetwork ==
    \E network \in Networks :
        \E b \in {cmd_set_network(disk, network)} : Run("setnetwork", FALSE, "none", b)

CmdImportProgram ==
    \E program \in ProgramFiles :
        \E b \in {cmd_import_program(disk, program)} : Run("importprogram", FALSE, program, b)

CmdSatisfyProgram ==
    \E program \in ProgramFiles, witness \in WitnessFiles :
        \E b \in {cmd_satisfy_program(disk, program, witness)} :
            Run("satisfyprogram", FALSE, program, b)

\* state.save(..): the file is opened.
SaveOpen ==
    /\ pc = "save_open"
    /\ \E permitted \in BOOLEAN :
          LET opened == save_open(disk, cmd.init, permitted)
          IN  /\ disk' = opened.file
              /\ IF opened.ret.ok
                 THEN pc' = "save_write" /\ outcome' = None /\ state' = state
                 ELSE pc' = "idle" /\ outcome' = Some(opened.ret) /\ state' = WalletState
    /\ UNCHANGED <<cmd, disk_before, issued, last_call, selectVars, builderVars>>

\* state.save(..): the document is written, and main returns.
SaveWrite ==
    /\ pc = "save_write"
    /\ \E io \in {"written", "error", "lost"} :
          LET written == save_write(state, io)
          IN  /\ disk' = written.file
              /\ outcome' = Some(IF written.ret.ok THEN cmd.ret ELSE written.ret)
    /\ pc' = "idle"
    /\ state' = WalletState
    /\ UNCHANGED <<cmd, disk_before, issued, last_call, selectVars, builderVars>>

Next ==
    \/ CmdNew
    \/ CmdGetNewAddress
    \/ CmdGetBalance
    \/ CmdSendToAddress
    \/ CmdSetFee
    \/ CmdSetRpc
    \/ CmdSetNetwork
    \/ CmdImportProgram
    \/ CmdSatisfyProgram
    \/ SaveOpen
    \/ SaveWrite

Spec == Init /\ [][Next]_vars

(***************************************************************************)
(* Claims on the program (Spec).                                           *)
(***************************************************************************)
Ended == pc = "idle" /\ cmd.called /\ outcome.some
Failed == Ended /\ ~outcome.val.ok

\* C5: a command that ends in an error leaves the state file exactly as it
\* was before the command.
C5_ErrorLeavesFileUntouched == Failed => disk = disk_before

\* C6: `new` run where a state file exists fails and never touches the file,
\* at no point of the command; `new` changes the file, and succeeds, only
\* where none existed.
C6_NewNeverOverwrites ==
    (cmd.called /\ cmd.name = "new") =>
        /\ disk_before.kind = "file" => disk = disk_before /\ (Ended => Failed)
        /\ disk # disk_before => disk_before = Absent /\ disk.kind = "file"
        /\ (Ended /\ outcome.val.ok) => disk_before = Absent /\ disk.kind = "file"

\* `new` has ended on an existing, complete wallet file: it failed and the
\* file is as before.
C6_Witness ==
    /\ cmd.called /\ cmd.name = "new"
    /\ Failed
    /\ disk_before.kind = "file" /\ disk_before.complete
    /\ disk = disk_before

\* `new` has ended where no file existed and has written the new wallet.
C6_WitnessCreated ==
    /\ cmd.called /\ cmd.name = "new"
    /\ Ended /\ outcome.val.ok
    /\ disk_before = Absent
    /\ disk = CompleteFile(to_json(State_new(WalletKey)))

\* C7: at every point of a command the state file holds the complete
\* previous state or the complete new state, never an empty or cut-off
\* document.
C7_NoPartialWriteExposed ==
    /\ disk.kind = "file" => disk.complete
    /\ pc # "idle" => (disk = disk_before \/ disk = CompleteFile(to_json(state)))

(***************************************************************************)
(* Claims on the AssemblySet (SpecAssembly), continued.                    *)
(***************************************************************************)
\* The witnesses stored for a root: the values of the entries with this key.
StoredFor(set, cmr) == {e[2] : e \in {x \in set.satisfactions : x[1] = cmr}}
InsertedSatisfaction ==
    last_call.called /\ last_call.op = "insert_satisfaction" /\ last_call.ret.ok

\* C11: insert_satisfaction for a root that has a witness stores the new
\* witness in its place and returns the old one; for a root without a
\* witness it returns nothing; after either call exactly one witness, the
\* newest, is stored for the root, and the other roots keep theirs.
C11_SatisfactionReplaced ==
    /\ \A r \in Roots : Cardinality(StoredFor(state.assembly, Cmr(r))) <= 1
    /\ InsertedSatisfaction =>
          LET program == last_call.arg
              old == StoredFor(last_call.pre.assembly, program.cmr)
          IN  /\ old = {} => last_call.ret.val = None
              /\ old # {} => last_call.ret.val.some /\ last_call.ret.val.val \in old
              /\ StoredFor(state.assembly, program.cmr)
                    = {[cmr |-> program.cmr, witness |-> program.witness]}
              /\ \A r \in Roots :
                    Cmr(r) # program.cmr =>
                        StoredFor(state.assembly, Cmr(r))
                            = StoredFor(last_call.pre.assembly, Cmr(r))
              /\ state.assembly.descriptors = last_call.pre.assembly.descriptors

\* C11 witness: a second, different witness was inserted for a root; the
\* call returned the first and the second is the one stored.
C11_Witness ==
    /\ InsertedSatisfaction
    /\ last_call.ret.val.some
    /\ last_call.ret.val.val.witness # last_call.arg.witness
    /\ StoredFor(state.assembly, last_call.arg.cmr)
          = {[cmr |-> last_call.arg.cmr, witness |-> last_call.arg.witness]}

\* C11 witness: the first witness of a root was inserted and nothing was
\* returned as replaced.
C11_WitnessFirst ==
    /\ InsertedSatisfaction
    /\ last_call.ret.val = None
    /\ StoredFor(state.assembly, last_call.arg.cmr) # {}

Partitioned(set) ==
    /\ spendable_roots(set) \cap locked_roots(set) = {}
    /\ spendable_roots(set) \cup locked_roots(set) = {Cmr(r) : r \in {x \in Roots : Registered(set, Cmr(x))}}

\* C12: after any sequence of insert and insert_satisfaction calls the
\* spendable roots and the locked roots are disjoint, their union is the
\* set of registered roots, and every root with a stored witness is
\* registered.
C12_SpendableLockedPartition ==
    /\ Partitioned(state.assembly)
    /\ \A e \in state.assembly.satisfactions : Registered(state.assembly, e[1])

\* C12, as the code has it: insert keeps the partition, and so does
\* insert_satisfaction when the root of its program is registered;
\* insert_satisfaction does not test this, and a successful call for a root
\* that is not registered leaves a witness stored for no registered root.
C12_PartitionKeptForRegistered ==
    /\ (last_call.called /\ last_call.op = "insert"
            /\ Partitioned(last_call.pre.assembly)) => Partitioned(state.assembly)
    /\ (last_call.called /\ last_call.op = "insert_satisfaction"
            /\ Partitioned(last_call.pre.assembly)
            /\ Registered(last_call.pre.assembly, last_call.arg.cmr))
          => /\ Partitioned(state.assembly)
             /\ \A e \in state.assembly.satisfactions : Registered(state.assembly, e[1])
    /\ (InsertedSatisfaction /\ ~Registered(last_call.pre.assembly, last_call.arg.cmr))
          => /\ ~Partitioned(state.assembly)
             /\ last_call.arg.cmr \in spendable_roots(state.assembly)

\* C12 witness: two roots are registered and a witness was inserted for one
\* of them: it is the spendable root, the other the locked one.
C12_Witness ==
    /\ InsertedSatisfaction
    /\ Partitioned(last_call.pre.assembly)
    /\ Registered(last_call.pre.assembly, last_call.arg.cmr)
    /\ Len(state.assembly.descriptors) = 2
    /\ spendable_roots(state.assembly) = {last_call.arg.cmr}
    /\ Cardinality(locked_roots(state.assembly)) = 1

(***************************************************************************)
(* Claims on the program (Spec), continued.                                *)
(***************************************************************************)
\* The last command was satisfyprogram, it found a state file that loads
\* and a program file that parses, and the root of the program is not
\* registered in the loaded state.
SatisfyUnknown ==
    /\ cmd.called /\ cmd.name = "satisfyprogram"
    /\ load(disk_before).ok
    /\ cmd.arg.ok
    /\ ~Registered(load(disk_before).val.assembly, cmd.arg.val)

\* C13: satisfyprogram for a program whose root is not registered fails with
\* UnknownAssembly carrying that root, whatever the witness file holds, and
\* the state file is not touched; no other case gives this error.
C13_UnknownAssemblyReported ==
    /\ SatisfyUnknown =>
          /\ pc = "idle"
          /\ outcome = Some(Err(UnknownAssembly(cmd.arg.val)))
          /\ disk = disk_before
    /\ (Failed /\ outcome.val.err.kind = "UnknownAssembly") => SatisfyUnknown

\* C13 witness: satisfyprogram has failed with UnknownAssembly on a wallet
\* file in which another root is registered.
C13_Witness ==
    /\ SatisfyUnknown
    /\ Failed
    /\ outcome.val.err = UnknownAssembly(cmd.arg.val)
    /\ load(disk_before).val.assembly.descriptors # <<>>
    /\ disk = disk_before

(***************************************************************************)
(* SpecKeys: key derivation, keypair lookup and the descriptor functions   *)
(* on one State value, whose cursor next_address advances                  *)
(***************************************************************************)
Wildcards == {"None", "Unhardened", "Hardened"}
SecretKeys == {[from_seed(seed) EXCEPT !.wildcard = w] : seed \in Seeds, w \in Wildcards}
Indices == 0..(IndexModulus - 1)

\* The public key of child `index` of an extended public key.
ChildPublicKey(xpub, index) == to_public_key(public_at_derivation_index(xpub, index))

\* Lookup targets: the public keys of the children of the wallet's key and
\* of another key, as derived and even-y normalized, and the unspendable key.
KeyTargets ==
    {ChildPublicKey(to_public(from_seed(seed)), i) : seed \in Seeds, i \in 0..(HardenedBit - 1)}
        \cup {to_even_y(ChildPublicKey(to_public(from_seed(seed)), i)) :
                 seed \in Seeds, i \in 0..(HardenedBit - 1)}
        \cup {to_even_y(to_public_key(UNSPENDABLE_PUBLIC_KEY))}

KeysStateGetKeypair ==
    \E key \in KeyTargets :
        CalledPlain("State::get_keypair", key, state, State_get_keypair(state, key))

KeysSignerGetKeypair ==
    \E key \in KeyTargets :
        CalledPlain("DynamicSigner::get_keypair", key, state,
                    signer_get_keypair([keymap |-> state.keymap,
                                        max_key_index |-> max_child_index(state)], key))

KeysAtDerivationIndex ==
    \E key \in SecretKeys, index \in Indices :
        CalledPlain("at_derivation_index", [key |-> key, index |-> index], state,
                    secret_at_derivation_index(key, index))

\* key.rs, tests::descriptor_secret_key_at_derivation_index, one round of
\* its loop: the public key of the child secret key beside the child of
\* the public key.
KeysDerivationParity ==
    \E seed \in Seeds, index \in 0..(HardenedBit - 1) :
        LET parent_xpriv == from_seed(seed)
            parent_xpub == to_public(parent_xpriv)
            private_key == to_private_key(secret_at_derivation_index(parent_xpriv, index).val)
        IN  CalledPlain("derivation_parity", [key |-> parent_xpriv, index |-> index], state,
                        [public_key_from_private_key |-> public_key(private_key),
                         public_key |-> ChildPublicKey(parent_xpub, index)])

\* The descriptors get_cmr and get_control_block are applied to: the
\* assembly descriptor of every root, the keyed descriptor of the wallet and
\* of another key and their children, a taproot descriptor without a leaf
\* and a descriptor that is not taproot.
Descriptors ==
    {simplicity_asm(Cmr(r)) : r \in Roots}
        \cup {simplicity_pk(to_public(from_seed(seed))) : seed \in Seeds}
        \cup {descriptor_at_derivation_index(simplicity_pk(to_public(from_seed(seed))), i) :
                 seed \in Seeds, i \in 0..(HardenedBit - 1)}
        \cup {KeyOnlyDescriptor, NonTaprootDescriptor}

KeysGetCmr ==
    \E descriptor \in Descriptors :
        CalledPlain("get_cmr", descriptor, state,
                    [cmr |-> get_cmr(descriptor),
                     control_block |-> get_control_block(descriptor)])

KeysNext ==
    \/ StateNextAddress
    \/ KeysStateGetKeypair
    \/ KeysSignerGetKeypair
    \/ KeysAtDerivationIndex
    \/ KeysDerivationParity
    \/ KeysGetCmr

SpecKeys == StateInit /\ [][KeysNext]_vars

\* The indices below the cursor whose child has `key` as its even-y public key.
ChildrenOf(st, key) ==
    {i \in 0..(st.next_index - 1) :
        \E e \in st.keymap : to_even_y(ChildPublicKey(e[1], i)) = key}

\* No child below the cursor has `key` as its public key, nor as that of
\* its negation.
Foreign(st, key) ==
    \A i \in 0..(st.next_index - 1) : \A e \in st.keymap :
        /\ ChildPublicKey(e[1], i) # key
        /\ [ChildPublicKey(e[1], i) EXCEPT !.neg = ~@] # key

LookedUp ==
    last_call.called
        /\ last_call.op \in {"State::get_keypair", "DynamicSigner::get_keypair"}

\* C14: keypair lookup with the even-y public key of a child below the
\* cursor as target returns a keypair whose public key is the target, when
\* the derived secret key gives the target and when only its negation does;
\* a target that matches no child below the cursor yields no keypair.
C14_KeypairLookupFindsChild ==
    LookedUp =>
        /\ ChildrenOf(last_call.pre, last_call.arg) # {} =>
              /\ last_call.ret.some
              /\ public_key(last_call.ret.val) = last_call.arg
        /\ Foreign(last_call.pre, last_call.arg) => last_call.ret = None

\* C14 for State::get_keypair alone.
C14_StateLookupFindsChild ==
    (LookedUp /\ last_call.op = "State::get_keypair") => C14_KeypairLookupFindsChild

\* C15: for every child index in range the public key of the secret key
\* from at_derivation_index(index) and to_private_key equals the public key
\* derived from the parent's public key at the same index.
C15_DerivationParity ==
    (last_call.called /\ last_call.op = "derivation_parity") =>
        /\ last_call.ret.public_key_from_private_key = last_call.ret.public_key
        /\ last_call.ret.public_key.path
              = FixedPath \o <<Normal(last_call.arg.index)>>

\* C15 witness: the two public keys of the largest child index in range
\* have been derived and are equal.
C15_Witness ==
    /\ last_call.called /\ last_call.op = "derivation_parity"
    /\ last_call.arg.index = HardenedBit - 1
    /\ last_call.ret.public_key_from_private_key = last_call.ret.public_key

DerivedAt == last_call.called /\ last_call.op = "at_derivation_index"

\* C16: at_derivation_index on an extended key with a wildcard returns an
\* error for every index with the top bit set, in both wildcard modes, and
\* for every index below appends exactly one child step of that index and
\* mode to the path; with no wildcard the key is returned unchanged for
\* every index.
C16_DerivationIndexChecked ==
    DerivedAt =>
        LET key == last_call.arg.key
            index == last_call.arg.index
        IN  /\ (key.wildcard # "None" /\ index >= HardenedBit) => ~last_call.ret.ok
            /\ (key.wildcard # "None" /\ index < HardenedBit) =>
                  /\ last_call.ret.ok
                  /\ last_call.ret.val.derivation_path
                        = Append(key.derivation_path,
                                 [hardened |-> key.wildcard = "Hardened", index |-> index])
                  /\ last_call.ret.val.seed = key.seed
                  /\ last_call.ret.val.wildcard = key.wildcard
            /\ key.wildcard = "None" => last_call.ret = Ok(key)

\* C16 witness: the first index with the top bit set, under the hardened
\* wildcard, was refused.
C16_Witness ==
    /\ DerivedAt
    /\ last_call.arg.key.wildcard = "Hardened"
    /\ last_call.arg.index = HardenedBit
    /\ ~last_call.ret.ok

\* C16 witness: the largest index below the top bit, under the unhardened
\* wildcard, was appended to the path.
C16_WitnessAppended ==
    /\ DerivedAt
    /\ last_call.arg.key.wildcard = "Unhardened"
    /\ last_call.arg.index = HardenedBit - 1
    /\ last_call.ret.ok
    /\ Len(last_call.ret.val.derivation_path) = Len(FixedPath) + 1

GotCmr == last_call.called /\ last_call.op = "get_cmr"
Opaque(descriptor) ==
    /\ descriptor.ty = "Tr"
    /\ descriptor.internal_key = UNSPENDABLE_PUBLIC_KEY
    /\ descriptor.taptree.some /\ descriptor.taptree.val.pol = "Assembly"
\* The wallet's keyed output, simplicity_pk(key) and its children.
Keyed(descriptor) ==
    /\ descriptor.ty = "Tr"
    /\ descriptor.internal_key = UNSPENDABLE_PUBLIC_KEY
    /\ descriptor.taptree.some /\ descriptor.taptree.val.pol = "Key"

Pad == 64
NotBase64 == 65

\* RedeemNode::encode_to_vec: one head byte with the root and the number of
\* bytes of witness data, then the witness data.
WitnessData(witness) ==
    CASE witness = "w0" -> <<>>
      [] witness = "w1" -> <<1>>
      [] OTHER -> <<2, 255>>
RootBit(cmr) == IF cmr.id = "r1" THEN 0 ELSE 1
encode_to_vec(node) ==
    <<4 * RootBit(node.cmr) + Len(WitnessData(node.witness))>> \o WitnessData(node.witness)

\* RedeemNode::decode: the node of the bytes, or an error when the head byte
\* is none, the data is cut off or has bytes left over, or the data is not
\* that of a witness.
decode(bytes) ==
    IF bytes = <<>> THEN Err(Error("Simplicity"))
    ELSE LET head == bytes[1]
             data == SubSeq(bytes, 2, Len(bytes))
         IN  IF head \div 4 > 1 \/ head % 4 # Len(data) THEN Err(Error("Simplicity"))
             ELSE IF \A w \in {"w0", "w1", "w2"} : WitnessData(w) # data
             THEN Err(Error("Simplicity"))
             ELSE Ok([cmr |-> Cmr(IF head \div 4 = 0 THEN "r1" ELSE "r2"),
                      witness |-> CHOOSE w \in {"w0", "w1", "w2"} : WitnessData(w) = data])

\* base64 STANDARD encode: three bytes give four characters, the last group
\* is padded with '='.
RECURSIVE base64_encode(_)
base64_encode(bytes) ==
    CASE Len(bytes) = 0 -> <<>>
      [] Len(bytes) = 1 ->
           LET v == bytes[1] * 65536
           IN  <<v \div 262144, (v \div 4096) % 64, Pad, Pad>>
      [] Len(bytes) = 2 ->
           LET v == bytes[1] * 65536 + bytes[2] * 256
           IN  <<v \div 262144, (v \div 4096) % 64, (v \div 64) % 64, Pad>>
      [] OTHER ->
           LET v == bytes[1] * 65536 + bytes[2] * 256 + bytes[3]
           IN  <<v \div 262144, (v \div 4096) % 64, (v \div 64) % 64, v % 64>>
                   \o base64_encode(SubSeq(bytes, 4, Len(bytes)))

\* base64 STANDARD decode: groups of four characters of the alphabet; only
\* the last group may end in one or two '=', and the bits it leaves over
\* must be zero.
RECURSIVE base64_decode(_)
base64_decode(text) ==
    IF Len(text) = 0 THEN Ok(<<>>)
    ELSE IF Len(text) < 4 THEN Err("InvalidLength")
    ELSE LET c == SubSeq(text, 1, 4)
             rest == SubSeq(text, 5, Len(text))
             v == c[1] * 262144 + c[2] * 4096
         IN  IF c[1] >= Pad \/ c[2] >= Pad \/ c[3] > Pad \/ c[4] > Pad
             THEN Err("InvalidByte")
             ELSE IF c[3] = Pad
             THEN IF c[4] # Pad \/ rest # <<>> THEN Err("InvalidByte")
                  ELSE IF c[2] % 16 # 0 THEN Err("InvalidLastSymbol")
                  ELSE Ok(<<v \div 65536>>)
             ELSE IF c[4] = Pad
             THEN IF rest # <<>> THEN Err("InvalidByte")
                  ELSE IF c[3] % 4 # 0 THEN Err("InvalidLastSymbol")
                  ELSE Ok(<<v \div 65536, ((v + c[3] * 64) \div 256) % 256>>)
             ELSE LET w == v + c[3] * 64 + c[4]
                      tail == base64_decode(rest)
                  IN  IF ~tail.ok THEN tail
                      ELSE Ok(<<w \div 65536, (w \div 256) % 256, w % 256>> \o tail.val)

\* Mutant: Display without the padding.
to_string_no_pad(node) ==
    LET s == base64_encode(encode_to_vec(node))
    IN  SubSeq(s, 1, Cardinality({i \in 1..Len(s) : s[i] # Pad}))

\* Display for SerdeWitnessNode
to_string(node) == base64_encode(encode_to_vec(node))

\* FromStr for SerdeWitnessNode
from_str(s) ==
    LET bytes == base64_decode(s)
    IN  IF ~bytes.ok THEN Err(Error("CouldNotParse")) ELSE decode(bytes.val)

(***************************************************************************)
(* SpecWitness: Display and FromStr of SerdeWitnessNode applied to the     *)
(* finalized witnesses and to texts                                        *)
(***************************************************************************)
FinalizedWitnesses == [cmr : {Cmr(r) : r \in Roots}, witness : {"w0", "w1", "w2"}]

\* The texts from_str is applied to: the text of every witness, as it is,
\* cut off after any number of characters, with one character replaced,
\* and with one character more.
Replacements == {0, 17, 63, Pad, NotBase64}
Texts ==
    LET valid == {to_string(w) : w \in FinalizedWitnesses}
    IN  valid
          \cup {SubSeq(t, 1, n) : t \in valid, n \in 0..3}
          \cup {[t EXCEPT ![i] = c] : t \in valid, i \in 1..4, c \in Replacements}
          \cup {t \o <<c>> : t \in valid, c \in Replacements}

WitnessDisplayFromStr ==
    \E w \in FinalizedWitnesses :
        CalledPlain("display_from_str", w, state,
                    [text |-> to_string(w), parsed |-> from_str(to_string(w))])

WitnessFromStr ==
    \E text \in Texts : CalledPlain("from_str", text, state, from_str(text))

WitnessNext == WitnessDisplayFromStr \/ WitnessFromStr

SpecWitness == StateInit /\ [][WitnessNext]_vars

\* The text is not padded base64 of the standard alphabet: its length is no
\* multiple of four, a character is outside the alphabet, or a '=' stands
\* elsewhere than at the end of the last group of four.
Malformed(text) ==
    \/ Len(text) % 4 # 0
    \/ \E i \in 1..Len(text) : text[i] = NotBase64
    \/ \E i \in 1..Len(text) :
          text[i] = Pad /\ (i <= Len(text) - 2 \/ (i < Len(text) /\ text[i + 1] # Pad))

\* C18: parsing the text that displaying a finalized witness produces gives
\* the witness back; parsing a text that is not valid padded base64, or
\* whose bytes are no program, returns an error (CouldNotParse for the
\* former), and only the text of a witness parses.
C18_WitnessTextRoundTrip ==
    /\ (last_call.called /\ last_call.op = "display_from_str") =>
          /\ last_call.ret.parsed = Ok(last_call.arg)
          /\ Len(last_call.ret.text) % 4 = 0
          /\ ~Malformed(last_call.ret.text)
    /\ (last_call.called /\ last_call.op = "from_str") =>
          /\ Malformed(last_call.arg) => last_call.ret = Err(Error("CouldNotParse"))
          /\ ~last_call.ret.ok => last_call.ret.err.kind \in {"CouldNotParse", "Simplicity"}
          /\ last_call.ret.ok <=>
                \E w \in FinalizedWitnesses :
                    /\ last_call.arg = base64_encode(encode_to_vec(w))
                    /\ last_call.ret.val = w

\* C18 witness: a witness whose text ends in one '=' was displayed and
\* parsed back.
C18_Witness ==
    /\ last_call.called /\ last_call.op = "display_from_str"
    /\ last_call.ret.text[4] = Pad /\ last_call.ret.text[3] # Pad
    /\ last_call.ret.parsed = Ok(last_call.arg)

\* C18 witness: the text of a witness cut off after three characters was
\* refused as unparsable.
C18_WitnessTruncated ==
    /\ last_call.called /\ last_call.op = "from_str"
    /\ Len(last_call.arg) = 3
    /\ last_call.ret = Err(Error("CouldNotParse"))

\* C18 witness: a text that is valid base64 of bytes that are no program was
\* refused.
C18_WitnessNoProgram ==
    /\ last_call.called /\ last_call.op = "from_str"
    /\ ~Malformed(last_call.arg)
    /\ last_call.ret = Err(Error("Simplicity"))

\* The defaults of State::new, written out.
NewStateDefaults(st) ==
    /\ st.next_index = 0
    /\ st.assembly.descriptors = <<>>
    /\ st.assembly.satisfactions = {}
    /\ st.fee = 1000
    /\ st.network = "Testnet"
    /\ st.rpc = [url |-> "localhost:18443", user |-> "user", pass |-> Some("pass")]
OneRootKey(st) ==
    /\ Cardinality(st.keymap) = 1
    /\ \A e \in st.keymap :
          /\ e[2].kind = "XPrv"
          /\ e[1] = to_public(e[2])
          /\ st.descriptor
                = [ty |-> "Tr", internal_key |-> UNSPENDABLE_PUBLIC_KEY,
                   taptree |-> Some([pol |-> "Key", key |-> e[1]])]

\* C19: the state that `new` creates with State::new, and saves, has cursor
\* 0, an empty assembly set, the fee of 1000 sat, the network Testnet, the
\* endpoint localhost:18443 with its default credentials, and a keymap of
\* exactly one pair, the root secret key under its public key; every wallet
\* file written later still holds exactly one root key pair.
C19_NewStateDefaults ==
    /\ (cmd.called /\ cmd.name = "new" /\ pc # "idle") =>
          NewStateDefaults(state) /\ OneRootKey(state)
    /\ (cmd.called /\ cmd.name = "new" /\ Ended /\ outcome.val.ok
           /\ disk.kind = "file" /\ disk.complete) =>
          NewStateDefaults(from_json(disk.json))
    /\ (disk.kind = "file" /\ disk.complete) => OneRootKey(from_json(disk.json))

\* C19 witness: `new` has ended and the file holds the state of State::new.
C19_Witness ==
    /\ cmd.called /\ cmd.name = "new"
    /\ Ended /\ outcome.val.ok
    /\ disk.kind = "file" /\ disk.complete
    /\ NewStateDefaults(from_json(disk.json))
    /\ OneRootKey(from_json(disk.json))

(***************************************************************************)
(* SpecSend: send_to_address on wallet states with and without the secret  *)
(* key.  State derives Deserialize, so the state a command loads is what   *)
(* the wallet file holds: WatchOnlyState is the state of State::new read   *)
(* back from a file whose keymap is empty.                                 *)
(***************************************************************************)
WatchOnlyState == [State_new(WalletKey) EXCEPT !.keymap = {}]
SendStates == {State_new(WalletKey), WatchOnlyState}

SendInit ==
    /\ state \in SendStates
    /\ issued = <<>>
    /\ last_call = NotCalled
    /\ SelectIdle /\ BuilderIdle /\ ProgIdle

\* send_to_address with the payment and the answers of the node on record.
SendToAddress ==
    \E amount \in SendAmounts :
        \E rpc \in RpcAnswers(next_index(state).state), thread_rng \in ThreadRngs :
            \E r \in {send_to_address(state, SendPayment(amount), rpc, thread_rng)} :
                /\ state' = r.state
                /\ issued' = IF r.index.ok THEN Append(issued, r.index.val) ELSE issued
                /\ last_call' = [called |-> TRUE, op |-> "send_to_address",
                                 arg |-> [send_to |-> SendPayment(amount), rpc |-> rpc],
                                 pre |-> state, ret |-> r.ret, index |-> Some(r.index),
                                 rpc_calls |-> r.rpc_calls, tx |-> r.tx]
                /\ UNCHANGED <<selectVars, builderVars, progVars>>

SendNext ==
    \/ StateNextAddress
    \/ StateSetFee
    \/ SendToAddress

SpecSend == SendInit /\ [][SendNext]_vars

\* send_to_address was called, got its change index and the scan answered.
Scanned ==
    /\ last_call.called /\ last_call.op = "send_to_address"
    /\ last_call.index.val.ok
    /\ last_call.arg.rpc.scan.ok

\* The scanned outputs are worth at least the amount plus the fee.
Covered ==
    total_amount(last_call.arg.rpc.scan.val)
        >= last_call.arg.send_to.amount + last_call.pre.fee

\* The keymap holds the secret key of the key of the wallet's descriptor.
HasMaterial ==
    \E e \in last_call.pre.keymap : e[1] = last_call.pre.descriptor.taptree.val.key

\* C20: send_to_address returns NotEnoughFunds exactly when the scan
\* answered and the scanned outputs do not cover amount + fee, whether or not
\* the wallet could sign; it returns CouldNotSatisfy exactly when they cover
\* it and the signing material is missing; the two errors are different.
C20_FundsBeforeSigning ==
    (last_call.called /\ last_call.op = "send_to_address") =>
        /\ last_call.ret = Err("NotEnoughFunds") <=> (Scanned /\ ~Covered)
        /\ last_call.ret = Err("CouldNotSatisfy") <=> (Scanned /\ Covered /\ ~HasMaterial)
        /\ Err("NotEnoughFunds") # Err("CouldNotSatisfy")

\* C20 witness: funds and signing material are both missing, the scan found
\* an output, and the call reported the missing funds.
C20_Witness ==
    /\ Scanned /\ ~Covered /\ ~HasMaterial
    /\ last_call.arg.rpc.scan.val # <<>>
    /\ last_call.ret = Err("NotEnoughFunds")

\* C20 witness: the funds suffice and the material is missing.
C20_WitnessCouldNotSatisfy ==
    Scanned /\ Covered /\ ~HasMaterial /\ last_call.ret = Err("CouldNotSatisfy")

\* C20 witness: funds and material are there and the call goes on to the
\* broadcast.
C20_WitnessSent ==
    Scanned /\ Covered /\ HasMaterial /\ last_call.ret.ok

(***************************************************************************)
(* SpecSign: sign called again and again on a builder of the wallet's      *)
(* inputs, with every draw of thread_rng.                                  *)
(***************************************************************************)
SignKeyIndices == {1, MaxDescIndex + 1}

SignAddFee ==
    /\ builder.outputs = <<>>
    /\ BuilderAddFee

SignSign ==
    /\ \E keymap \in Keymaps, max_key_index \in SignKeyIndices, thread_rng \in ThreadRngs :
          sign_call' = [called |-> TRUE, parent_descriptor |-> WalletDescriptor,
                        keymap |-> keymap, max_key_index |-> max_key_index,
                        thread_rng |-> thread_rng,
                        ret |-> sign(builder, WalletDescriptor, keymap, max_key_index,
                                     thread_rng)]
    /\ UNCHANGED <<builder, selectVars, stateVars, progVars>>

SignNext == BuilderAddInput \/ SignAddFee \/ SignSign

SpecSign == BuilderInit /\ [][SignNext]_vars

\* Two sign calls in a row have the same key material.
SameMaterial ==
    /\ sign_call.called /\ sign_call'.called
    /\ sign_call'.parent_descriptor = sign_call.parent_descriptor
    /\ sign_call'.keymap = sign_call.keymap
    /\ sign_call'.max_key_index = sign_call.max_key_index

\* C21: a sign call leaves the builder unchanged, and a sign call that
\* follows another one on the same builder with the same key material
\* returns the identical transaction, witnesses included.
C21_SignDeterministic ==
    [][sign_call'.called =>
          /\ builder' = builder
          /\ SameMaterial => sign_call'.ret = sign_call.ret]_vars

\* What holds of the code: the builder is unchanged, and the two
\* transactions are identical up to the auxiliary random data of their
\* signatures, so identical when thread_rng yields the same data.
C21_SignDeterministicGivenDraws ==
    [][sign_call'.called =>
          /\ builder' = builder
          /\ (SameMaterial /\ sign_call'.thread_rng = sign_call.thread_rng)
                => sign_call'.ret = sign_call.ret
          /\ SameMaterial => sign_call'.ret.some = sign_call.ret.some]_vars

\* The signature of the witness of input i of a signed transaction.
SignatureOf(tx, i) == tx.input[i].witness.script_witness[1].sig

\* C22: every signature of a signed transaction is made over the transaction
\* of the builder with the witness of every input still empty, for its own
\* input, the i-th signature made being that of input i; the signed
\* transaction is that transaction with witness i attached to input i.
C22_WitnessesAttachedAfterGathering ==
    (sign_call.called /\ sign_call.ret.some) =>
        /\ \A j \in 1..Len(builder.inputs) : builder.inputs[j].witness = EmptyWitness
        /\ Len(sign_call.ret.val.input) = Len(builder.inputs)
        /\ \A i \in 1..Len(builder.inputs) :
              /\ SignatureOf(sign_call.ret.val, i).msg.tx = to_transaction(builder)
              /\ SignatureOf(sign_call.ret.val, i).msg.input_index = i
              /\ SignatureOf(sign_call.ret.val, i).aux_rand = sign_call.thread_rng[i]
              /\ [sign_call.ret.val.input[i] EXCEPT !.witness = EmptyWitness]
                    = builder.inputs[i]
        /\ sign_call.ret.val.output = builder.outputs

\* C22 witness: two inputs of different children, signed with different
\* draws.
C22_Witness ==
    /\ sign_call.called /\ sign_call.ret.some
    /\ Len(builder.inputs) = 2
    /\ builder.desc_indices[1] # builder.desc_indices[2]
    /\ sign_call.thread_rng[1] # sign_call.thread_rng[2]
    /\ Signed(sign_call.ret.val.input[1]) /\ Signed(sign_call.ret.val.input[2])

(***************************************************************************)
(* C23, under SpecState                                                    *)
(***************************************************************************)
\* The fields of a State that no setter writes.
SameWallet(a, b) ==
    /\ a.next_index = b.next_index
    /\ a.keymap = b.keymap
    /\ a.descriptor = b.descriptor
    /\ a.assembly = b.assembly

SetterCalled(op) == last_call.called /\ last_call.op = op

\* C23: after set_fee, set_rpc or set_network the getter of the field
\* returns the value given, and the cursor, the keymap, the descriptor, the
\* assembly set and the two other settable fields are what they were.
C23_SettersChangeOwnField ==
    /\ SetterCalled("set_fee") =>
          /\ State_fee(state) = last_call.arg
          /\ SameWallet(state, last_call.pre)
          /\ State_rpc(state) = State_rpc(last_call.pre)
          /\ State_network(state) = State_network(last_call.pre)
    /\ SetterCalled("set_rpc") =>
          /\ State_rpc(state) = last_call.arg
          /\ SameWallet(state, last_call.pre)
          /\ State_fee(state) = State_fee(last_call.pre)
          /\ State_network(state) = State_network(last_call.pre)
    /\ SetterCalled("set_network") =>
          /\ State_network(state) = last_call.arg
          /\ SameWallet(state, last_call.pre)
          /\ State_fee(state) = State_fee(last_call.pre)
          /\ State_rpc(state) = State_rpc(last_call.pre)

\* C23 witness: set_network changed the network of a state whose cursor,
\* fee and endpoint all differ from those of State::new.
C23_Witness ==
    /\ SetterCalled("set_network")
    /\ last_call.arg # State_network(last_call.pre)
    /\ State_network(state) = last_call.arg
    /\ last_call.pre.next_index > 0
    /\ State_fee(state) # DefaultFee
    /\ State_rpc(state) # ConnectionDefault

\* C23 witnesses: set_fee and set_rpc changed their field.
C23_WitnessFee ==
    /\ SetterCalled("set_fee")
    /\ last_call.arg # State_fee(last_call.pre)
    /\ State_rpc(state) # ConnectionDefault
C23_WitnessRpc ==
    /\ SetterCalled("set_rpc")
    /\ last_call.arg # State_rpc(last_call.pre)
    /\ State_fee(state) # DefaultFee

(***************************************************************************)
(* C24, under SpecBuilder                                                  *)
(***************************************************************************)
\* The three input lists have one entry per input, and entry i of each is
\* that of the i-th input added: its outpoint, its descriptor index and the
\* output of the wallet's child of that index.
Aligned(b) ==
    /\ Len(b.desc_indices) = Len(b.inputs)
    /\ Len(b.prevouts) = Len(b.inputs)
    /\ \A i \in 1..Len(b.inputs) :
          /\ b.inputs[i].previous_output = i
          /\ i <= Len(b.prevouts) =>
                b.prevouts[i].script_pubkey
                    = script_pubkey(descriptor_at_derivation_index(WalletDescriptor,
                                                                   b.desc_indices[i]))

\* b is a with one entry appended to each input list and the same outputs.
OneInputAppended(a, b) ==
    /\ Len(b.inputs) = Len(a.inputs) + 1
    /\ Len(b.desc_indices) = Len(a.desc_indices) + 1
    /\ Len(b.prevouts) = Len(a.prevouts) + 1
    /\ SubSeq(b.inputs, 1, Len(a.inputs)) = a.inputs
    /\ SubSeq(b.desc_indices, 1, Len(a.desc_indices)) = a.desc_indices
    /\ SubSeq(b.prevouts, 1, Len(a.prevouts)) = a.prevouts
    /\ b.outputs = a.outputs

\* b is a with one output appended and the same input lists.
OneOutputAppended(a, b) ==
    /\ Len(b.outputs) = Len(a.outputs) + 1
    /\ SubSeq(b.outputs, 1, Len(a.outputs)) = a.outputs
    /\ b.inputs = a.inputs
    /\ b.desc_indices = a.desc_indices
    /\ b.prevouts = a.prevouts

\* C24: add_input appends one entry to each of inputs, desc_indices and
\* prevouts and leaves the outputs; add_output and add_fee append one output
\* and leave the input lists, the output of add_fee being the fee output
\* (empty script) of exactly the fee amount; the three input lists always
\* have equal length and stay aligned; nothing is removed or reordered.
C24_BuilderAdditive ==
    /\ [](Aligned(builder))
    /\ [][/\ BuilderAddInput => OneInputAppended(builder, builder')
          /\ BuilderAddOutput =>
                /\ OneOutputAppended(builder, builder')
                /\ builder'.outputs[Len(builder'.outputs)].value = BuilderPayment.amount
                /\ builder'.outputs[Len(builder'.outputs)].script_pubkey # EmptyScript
          /\ BuilderAddFee =>
                /\ OneOutputAppended(builder, builder')
                /\ builder'.outputs[Len(builder'.outputs)].value = DefaultFee
                /\ builder'.outputs[Len(builder'.outputs)].script_pubkey = EmptyScript
          /\ (builder' # builder) =>
                OneInputAppended(builder, builder') \/ OneOutputAppended(builder, builder')
         ]_vars

\* C24 witness: two inputs of different children were added around a
\* payment output, and the fee output was added last.
C24_Witness ==
    /\ Len(builder.inputs) = 2
    /\ builder.desc_indices[1] # builder.desc_indices[2]
    /\ Aligned(builder)
    /\ Len(builder.outputs) = 2
    /\ builder.outputs[1].script_pubkey # EmptyScript
    /\ builder.outputs[2] = new_fee(DefaultFee, bitcoin_id(builder.network))

(***************************************************************************)
(* C25, under SpecSend                                                     *)
(***************************************************************************)
\* send_to_address built and signed a transaction.
Built ==
    /\ last_call.called /\ last_call.op = "send_to_address"
    /\ last_call.tx.some

\* The amount of the scanned output that input i of tx spends.
InputAmount(tx, utxos, i) ==
    LET u == CHOOSE k \in 1..Len(utxos) : utxos[k].outpoint = tx.input[i].previous_output
    IN  utxos[u].amount

RECURSIVE InputTotal(_, _, _)
InputTotal(tx, utxos, n) ==
    IF n = 0 THEN 0 ELSE InputTotal(tx, utxos, n - 1) + InputAmount(tx, utxos, n)

\* C25: the transaction send_to_address builds spends scanned outputs, each
\* once, and has three outputs, the payment, the change and the fee; the
\* change is not negative and the amounts of the inputs add up to payment +
\* change + fee.
C25_ValueConserved ==
    Built =>
        LET tx == last_call.tx.val
            utxos == last_call.arg.rpc.scan.val
        IN  /\ \A i \in 1..Len(tx.input) :
                  \E k \in 1..Len(utxos) : utxos[k].outpoint = tx.input[i].previous_output
            /\ \A i, j \in 1..Len(tx.input) :
                  tx.input[i].previous_output = tx.input[j].previous_output => i = j
            /\ Len(tx.output) = 3
            /\ tx.output[1].value = last_call.arg.send_to.amount
            /\ tx.output[1].script_pubkey = last_call.arg.send_to.address.script
            /\ tx.output[2].value >= 0
            /\ tx.output[2].script_pubkey # EmptyScript
            /\ tx.output[3].value = last_call.pre.fee
            /\ tx.output[3].script_pubkey = EmptyScript
            /\ InputTotal(tx, utxos, Len(tx.input))
                  = tx.output[1].value + tx.output[2].value + tx.output[3].value

\* C25 witness: two inputs of 500 and 1500 pay 500 and the fee of 1000 and
\* leave a change of 500.
C25_Witness ==
    /\ Built
    /\ Len(last_call.tx.val.input) = 2
    /\ last_call.tx.val.output[1].value = 500
    /\ last_call.tx.val.output[2].value = 500
    /\ last_call.tx.val.output[3].value = DefaultFee

\* C25 witnesses: no change is left; only the first of two scanned outputs
\* is spent.
C25_WitnessNoChange ==
    Built /\ last_call.tx.val.output[2].value = 0
C25_WitnessFirstOnly ==
    /\ Built
    /\ Len(last_call.arg.rpc.scan.val) = 2
    /\ Len(last_call.tx.val.input) = 1

(***************************************************************************)
(* C26, under SpecSend                                                     *)
(***************************************************************************)
SendCalled == last_call.called /\ last_call.op = "send_to_address"

\* How often the call made the RPC of the given name.
Calls(name) ==
    Cardinality({i \in 1..Len(last_call.rpc_calls) : last_call.rpc_calls[i] = name})

\* The call was made on a state whose cursor next_index refuses.
CursorExhausted == ~last_call.index.val.ok

\* The broadcast is the last RPC of the call, made after the scan, for a
\* transaction that sign returned with a witness on every input, after the
\* selection covered amount + fee; the result is then what the node
\* answered.
BroadcastInOrder ==
    Calls("sendrawtransaction") = 1 =>
        /\ last_call.rpc_calls = <<"scantxoutset", "sendrawtransaction">>
        /\ Scanned /\ Covered
        /\ last_call.tx.some
        /\ \A i \in 1..Len(last_call.tx.val.input) : Signed(last_call.tx.val.input[i])
        /\ last_call.ret.ok = last_call.arg.rpc.broadcast.ok
        /\ ~last_call.ret.ok => last_call.ret = Err("Rpc")

\* A scan the node answered with an error ends the call with that error.
NoRetry ==
    (~CursorExhausted /\ ~last_call.arg.rpc.scan.ok) =>
        /\ last_call.rpc_calls = <<"scantxoutset">>
        /\ last_call.ret = Err("Rpc")

NoBroadcastOnFailure ==
    last_call.ret \in {Err("NotEnoughFunds"), Err("CouldNotSatisfy")} =>
        Calls("sendrawtransaction") = 0

\* C26 as claimed: every send_to_address call makes exactly one scan and at
\* most one broadcast, does not retry, and broadcasts only a signed
\* transaction after a successful selection.
C26_ExactlyOneScan ==
    SendCalled =>
        /\ Calls("scantxoutset") = 1
        /\ Calls("sendrawtransaction") <= 1
        /\ BroadcastInOrder /\ NoRetry /\ NoBroadcastOnFailure

\* C26 as amended: a call whose next_index fails makes no RPC at all; every
\* other call makes exactly one scan, as its first RPC, and at most one
\* broadcast, does not retry, and broadcasts only a signed transaction after
\* a successful selection.
C26_OneScanUnlessCursorExhausted ==
    SendCalled =>
        /\ CursorExhausted =>
              /\ last_call.rpc_calls = <<>>
              /\ last_call.ret = Err("Bip32")
        /\ ~CursorExhausted =>
              /\ Calls("scantxoutset") = 1
              /\ last_call.rpc_calls[1] = "scantxoutset"
        /\ Calls("sendrawtransaction") <= 1
        /\ BroadcastInOrder /\ NoRetry /\ NoBroadcastOnFailure

\* C26 witness: the node refused the transaction and the call ended after
\* one scan and one broadcast.
C26_Witness ==
    /\ SendCalled
    /\ last_call.rpc_calls = <<"scantxoutset", "sendrawtransaction">>
    /\ ~last_call.arg.rpc.broadcast.ok
    /\ last_call.ret = Err("Rpc")

\* C26 witnesses: a call without any RPC, and a call that ended with
\* CouldNotSatisfy after the scan.
C26_WitnessNoRpc ==
    SendCalled /\ CursorExhausted /\ last_call.rpc_calls = <<>>
C26_WitnessNotSigned ==
    /\ SendCalled
    /\ last_call.ret = Err("CouldNotSatisfy")
    /\ last_call.rpc_calls = <<"scantxoutset">>

(***************************************************************************)
(* C27, under SpecAssembly                                                 *)
(***************************************************************************)
SatisfactionFailed ==
    /\ last_call.called /\ last_call.op = "insert_satisfaction"
    /\ ~last_call.ret.ok

\* C27: insert_satisfaction fails exactly for a witness structure that
\* cannot be finalized, and then the assembly set, its descriptors and every
\* stored witness, that of the program's root included, is what it was.
C27_FailedSatisfactionChangesNothing ==
    (last_call.called /\ last_call.op = "insert_satisfaction") =>
        /\ ~last_call.ret.ok <=> ~last_call.arg.well_typed
        /\ SatisfactionFailed =>
              /\ state.assembly = last_call.pre.assembly
              /\ StoredFor(state.assembly, last_call.arg.cmr)
                    = StoredFor(last_call.pre.assembly, last_call.arg.cmr)
              /\ state = last_call.pre

\* C27 witness: the call failed for a root that had another witness
\* stored, which is still stored.
C27_Witness ==
    /\ SatisfactionFailed
    /\ StoredFor(last_call.pre.assembly, last_call.arg.cmr) # {}
    /\ \A w \in StoredFor(state.assembly, last_call.arg.cmr) :
          w.witness # last_call.arg.witness
    /\ StoredFor(state.assembly, last_call.arg.cmr) # {}

\* C27 witness: the call failed for a root without a witness.
C27_WitnessNone ==
    /\ SatisfactionFailed
    /\ StoredFor(state.assembly, last_call.arg.cmr) = {}

(***************************************************************************)
(* C28, under Spec                                                         *)
(***************************************************************************)
GetNewAddress == cmd.called /\ cmd.name = "getnewaddress"
Loaded == disk_before.kind = "file" /\ disk_before.complete
Persisted == disk.kind = "file" /\ disk.complete

\* The roots the command lists, and whether the user asked for the address
\* of one of them.
Fragments == sorted(assembly_iter(from_json(disk_before.json).assembly))
FragmentAsked == Fragments # <<>> /\ cmd.arg.choice = "y"

\* What C28 says of a command on the file `before`, once the premise
\* `written` holds of a command that ended well.
GetNewAddressCursor(written) ==
    (GetNewAddress /\ Loaded) =>
        LET before == from_json(disk_before.json)
        IN  /\ (Ended /\ outcome.val.ok /\ ~FragmentAsked /\ written) =>
                  /\ Persisted
                  /\ from_json(disk.json)
                        = [before EXCEPT !.next_index = before.next_index + 1]
                  /\ cmd.ret.val
                        = address(descriptor_at_derivation_index(before.descriptor,
                                                                 before.next_index),
                                  before.network)
            /\ (Ended /\ outcome.val.ok /\ FragmentAsked /\ written) =>
                  /\ Persisted
                  /\ from_json(disk.json) = before
                  /\ cmd.arg.index.ok /\ cmd.arg.index.val < Len(Fragments)
                  /\ cmd.ret.val
                        = address(simplicity_asm(Fragments[cmd.arg.index.val + 1]),
                                  before.network)
            /\ (FragmentAsked /\ cmd.arg.index.ok
                    /\ cmd.arg.index.val >= Len(Fragments)) =>
                  /\ Ended
                  /\ outcome = Some(Err(Error("AssemblyOutOfBounds")))
                  /\ disk = disk_before
            /\ (Ended /\ outcome = Some(Err(Error("AssemblyOutOfBounds")))) =>
                  /\ FragmentAsked /\ cmd.arg.index.ok
                  /\ cmd.arg.index.val >= Len(Fragments)

\* C28: a getnewaddress command that succeeds with a keyed address returns
\* the address of the child whose index is the cursor of the file before the
\* command, and the file afterwards is the file before with the cursor one
\* higher; one that succeeds with the address of a fragment returns the
\* address of the fragment chosen and leaves the file as it was; a fragment
\* index out of range ends the command with AssemblyOutOfBounds and the file
\* as it was.
C28_GetNewAddressCursor == GetNewAddressCursor(TRUE)

\* What holds of the code: the same, for the commands after which the file
\* holds a complete document.
C28_CursorWhereFileWritten == GetNewAddressCursor(Persisted)

\* A keyed address was returned, the command ended well, and the file holds
\* no document.
C28_AddressIssuedFileLost ==
    /\ GetNewAddress /\ Loaded /\ Ended /\ outcome.val.ok
    /\ ~FragmentAsked
    /\ ~Persisted

\* Reached: the second keyed address of a wallet with a fragment was issued
\* for index 1 and the file holds cursor 2.
C28_Witness ==
    /\ GetNewAddress /\ Loaded /\ Ended /\ outcome.val.ok
    /\ Fragments # <<>> /\ ~FragmentAsked
    /\ from_json(disk_before.json).next_index = 1
    /\ Persisted /\ from_json(disk.json).next_index = 2

\* Reached: the address of a fragment was returned with the cursor at 1; an
\* index out of range was refused.
C28_WitnessFragment ==
    /\ GetNewAddress /\ Loaded /\ Ended /\ outcome.val.ok
    /\ FragmentAsked
    /\ Persisted /\ from_json(disk.json).next_index = 1
C28_WitnessOutOfBounds ==
    /\ GetNewAddress /\ Loaded /\ FragmentAsked
    /\ outcome = Some(Err(Error("AssemblyOutOfBounds")))
    /\ cmd.arg.index.val = Len(Fragments)

====
